---- MODULE Spec2Model ----
(***************************************************************************)
(* Model of the Family Link integration: the appliedTimeLimits decoder of  *)
(* client/api.py, the pending-state overlay and the poll cycle of          *)
(* coordinator.py, and the switch handlers of switch.py.                   *)
(*                                                                         *)
(* JSON documents are tagged values: null, int, str (a sequence of         *)
(* one-character strings) and list.  Python indices start at 0; At(x, i)   *)
(* is x[i].                                                                *)
(***************************************************************************)
EXTENDS Integers, Sequences, FiniteSets, TLC

VARIABLES
  resp,       \* decoder: the HTTP-200 body of appliedTimeLimits being decoded
  wall,       \* what datetime.now() answers, [day, now]
  decoded,    \* decoder: the value returned (or the exception raised)
  client,                 \* coordinator.client: "none", or a client "unauth"/"auth"
  is_retrying_auth,       \* coordinator._is_retrying_auth
  pending_lock_states,    \* coordinator._pending_lock_states: device_id -> [locked, age]
  devices,                \* coordinator._devices: <<child_id, device_id>> -> device
  data,                   \* coordinator.data, the published snapshot
  last_update_success,    \* coordinator.last_update_success
  pc,                     \* "idle", or "fetching" while _async_update_data runs
  cycle,                  \* history of the current / last poll cycle
  cmd,                    \* the user command in flight
  ncmd,                   \* number of user commands issued so far
  pending_time_limit_states, \* coordinator._pending_time_limit_states:
                             \* child_id -> limit_type -> [enabled, age]
  last_set,               \* history: the last set_pending_time_limit_state per key
  cookies,        \* client._cookies: 0 (None) or the generation loaded
  session,        \* client._session: [gen, closed], gen 0 when None
  cookie_dict,    \* client._cookie_dict: -1 (no attribute) or a generation
  cookie_header,  \* client._cookie_header: -1 (no attribute) or a generation
  refresh_pc,     \* where async_refresh_session stands
  loads,          \* history: number of cookie sets loaded so far
  suspended,      \* the toggle command suspended in its rule-id lookup
  reply           \* history: the last client call and its outcome

clientVars ==
  <<cookies, session, cookie_dict, cookie_header, refresh_pc, loads, suspended,
    reply>>

decVars == <<resp, wall, decoded, clientVars>>

pollVars == <<client, is_retrying_auth, devices, data, last_update_success, pc, cycle>>

userVars == <<cmd, ncmd, pending_time_limit_states, last_set>>

coordVars == <<pollVars, pending_lock_states, userVars>>

vars == <<decVars, coordVars>>

(***************************************************************************)
(* JSON values                                                             *)
(***************************************************************************)
Null == [t |-> "null"]

JInt(n) == [t |-> "int", i |-> n]

JStr(cs) == [t |-> "str", s |-> cs]

JList(xs) == [t |-> "list", l |-> xs]

IsList(x) == x.t = "list"

IsStr(x) == x.t = "str"

IsInt(x) == x.t = "int"

JLen(x) == Len(x.l)

At(x, i) == x.l[i + 1]

\* Python truth value of a JSON value
Truthy(x) ==
  CASE x.t = "null" -> FALSE
    [] x.t = "int"  -> x.i # 0
    [] x.t = "str"  -> Len(x.s) > 0
    [] x.t = "list" -> Len(x.l) > 0

\* x == n for a Python int literal n
EqInt(x, n) == IsInt(x) /\ x.i = n

DigitChars == <<"0", "1", "2", "3", "4", "5", "6", "7", "8", "9">>

DigitVal(c) == (CHOOSE k \in 1..10 : DigitChars[k] = c) - 1

IsDigitChar(c) == \E k \in 1..10 : DigitChars[k] = c

\* str.isdigit()
StrIsDigit(cs) == Len(cs) > 0 /\ \A k \in 1..Len(cs) : IsDigitChar(cs[k])

RECURSIVE StrToInt(_)
\* int(s) for a string of digits
StrToInt(cs) ==
  IF Len(cs) = 0 THEN 0
  ELSE 10 * StrToInt(SubSeq(cs, 1, Len(cs) - 1)) + DigitVal(cs[Len(cs)])

RECURSIVE IntToStr(_)
\* str(n) for n >= 0
IntToStr(n) ==
  IF n < 10 THEN <<DigitChars[n + 1]>>
  ELSE Append(IntToStr(n \div 10), DigitChars[(n % 10) + 1])

\* s.startswith(p)
StartsWith(cs, p) == Len(cs) >= Len(p) /\ SubSeq(cs, 1, Len(p)) = p

CAEQ == <<"C", "A", "E", "Q">>

CAMQ == <<"C", "A", "M", "Q">>

Max(a, b) == IF a >= b THEN a ELSE b

(***************************************************************************)
(* appliedTimeLimits decoder (FamilyLinkClient.async_get_applied_time_     *)
(* limits).  env is the wall clock the decoder reads: env.day is           *)
(* datetime.now().isoweekday(), env.now the minute of the day.             *)
(***************************************************************************)
NoWindow == [t |-> "null"]

\* {"start_ms": a, "end_ms": b}
Window(a, b) == [t |-> "win", start_ms |-> a, end_ms |-> b]

\* int(dt.timestamp() * 1000) of today's hh:mm, counted from today's midnight
MsOfDay(hh, mm) == JInt((hh * 60 + mm) * 60000)

\* the dictionary the decoder starts every device with
InitialDeviceInfo ==
  [ total_allowed_minutes |-> 0,
    used_minutes          |-> 0,
    remaining_minutes     |-> 0,
    daily_limit_enabled   |-> FALSE,
    daily_limit_minutes   |-> 0,
    bedtime_window        |-> NoWindow,
    schooltime_window     |-> NoWindow,
    bedtime_active        |-> FALSE,
    schooltime_active     |-> FALSE,
    bonus_minutes         |-> 0,
    bonus_override_id     |-> Null ]

\* dict item assignment: d[k] = v (adds the key when it is missing)
SetKey(d, k, v) == [x \in (DOMAIN d) \cup {k} |-> IF x = k THEN v ELSE d[x]]

HasKey(d, k) == k \in DOMAIN d

\* device id: entry[0][3] when entry[0] is a non-empty list longer than 3,
\* else entry[25]; Null stands for Python None
ExtractDeviceId(dd) ==
  LET d0 == At(dd, 0) IN
  IF Truthy(d0) /\ IsList(d0) /\ JLen(d0) > 3 THEN At(d0, 3)
  ELSE IF JLen(dd) > 25 /\ Truthy(At(dd, 25)) THEN At(dd, 25)
  ELSE Null

\* ParseLockState taking every override for a lock
ParseLockState_AnyOverride(dd) ==
  LET d0 == At(dd, 0) IN
  IF IsList(d0) /\ JLen(d0) > 2 THEN TRUE ELSE FALSE

\* lock state: entry[0] is a list longer than 2 whose action code is 1
ParseLockState(dd) ==
  LET d0 == At(dd, 0) IN
  IF IsList(d0) /\ JLen(d0) > 2 THEN EqInt(At(d0, 2), 1) ELSE FALSE

\* ParseBonusOverride reporting the seconds as minutes
ParseBonusOverride_Seconds(info, dd) ==
  LET d0 == At(dd, 0) IN
  IF Truthy(d0) /\ IsList(d0) /\ JLen(d0) > 13 /\ EqInt(At(d0, 2), 10)
  THEN LET d13 == At(d0, 13) IN
       IF IsList(d13) /\ JLen(d13) > 0 /\ IsList(At(d13, 0)) /\ JLen(At(d13, 0)) > 0
       THEN LET b == At(At(d13, 0), 0) IN
            IF IsStr(b) /\ StrIsDigit(b.s)
            THEN [info EXCEPT !.bonus_override_id = At(d0, 0),
                              !.bonus_minutes = StrToInt(b.s)]
            ELSE info
       ELSE info
  ELSE info

\* bonus override: entry[0] longer than 13 elements with type code 10
ParseBonusOverride(info, dd) ==
  LET d0 == At(dd, 0) IN
  IF Truthy(d0) /\ IsList(d0) /\ JLen(d0) > 13 /\ EqInt(At(d0, 2), 10)
  THEN LET d13 == At(d0, 13) IN
       IF IsList(d13) /\ JLen(d13) > 0 /\ IsList(At(d13, 0)) /\ JLen(At(d13, 0)) > 0
       THEN LET b == At(At(d13, 0), 0) IN
            IF IsStr(b) /\ StrIsDigit(b.s)
            THEN [info EXCEPT !.bonus_override_id = At(d0, 0),
                              !.bonus_minutes = StrToInt(b.s) \div 60]
            ELSE info
       ELSE info
  ELSE info

\* used time: entry[20], a string of milliseconds
ParseUsedTime(info, dd) ==
  IF JLen(dd) > 20 /\ IsStr(At(dd, 20)) /\ StrIsDigit(At(dd, 20).s)
  THEN [info EXCEPT !.used_minutes = StrToInt(At(dd, 20).s) \div 60000]
  ELSE info

\* 6-element CAEQ tuple [tag, day, state_flag, minutes, created, updated]
ApplyDailyLimitTuple(info, idx, item, env) ==
  LET day == At(item, 1)
      state_flag == At(item, 2)
      minutes == At(item, 3)
  IN IF IsInt(day) /\ IsInt(state_flag) /\ IsInt(minutes) /\ day.i = env.day
     THEN [info EXCEPT !.daily_limit_enabled = (idx < 10) /\ (state_flag.i = 2),
                       !.daily_limit_minutes = minutes.i]
     ELSE info

\* the gate of an 8-element window tuple: today's day, state_flag 2, two pairs
WindowGate(item, env) ==
  /\ IsInt(At(item, 1)) /\ At(item, 1).i = env.day
  /\ IsInt(At(item, 2)) /\ At(item, 2).i = 2
  /\ IsList(At(item, 3)) /\ JLen(At(item, 3)) = 2
  /\ IsList(At(item, 4)) /\ JLen(At(item, 4)) = 2

ValidHour(x) == IsInt(x) /\ x.i >= 0 /\ x.i <= 23

ValidMinute(x) == IsInt(x) /\ x.i >= 0 /\ x.i <= 59

\* now.replace(hour=..., minute=...) accepts the two [hour, minute] pairs
WindowTimesValid(item) ==
  /\ ValidHour(At(At(item, 3), 0)) /\ ValidMinute(At(At(item, 3), 1))
  /\ ValidHour(At(At(item, 4), 0)) /\ ValidMinute(At(At(item, 4), 1))

\* whether now lies in the window [start, end), which may cross midnight
WindowActive(item, env) ==
  LET sh == At(At(item, 3), 0).i
      sm == At(At(item, 3), 1).i
      eh == At(At(item, 4), 0).i
      em == At(At(item, 4), 1).i
      start == sh * 60 + sm
      end == eh * 60 + em
  IN IF eh < sh \/ (eh = sh /\ em < sm)
     THEN env.now >= start \/ env.now < end
     ELSE start <= env.now /\ env.now < end

WindowOf(item) ==
  Window(MsOfDay(At(At(item, 3), 0).i, At(At(item, 3), 1).i),
         MsOfDay(At(At(item, 4), 0).i, At(At(item, 4), 1).i))

\* 8-element CAEQ tuple: bedtime window
ApplyBedtimeTuple(info, item, env) ==
  IF WindowGate(item, env) /\ WindowTimesValid(item)
  THEN [info EXCEPT !.bedtime_window = WindowOf(item),
                    !.bedtime_active = WindowActive(item, env)]
  ELSE info

\* 8-element CAMQ tuple: school-time window
ApplySchooltimeTuple(info, item, env) ==
  IF WindowGate(item, env) /\ WindowTimesValid(item)
  THEN [info EXCEPT !.schooltime_window = WindowOf(item),
                    !.schooltime_active = WindowActive(item, env)]
  ELSE info

RECURSIVE StripZeros(_)
StripZeros(cs) ==
  IF Len(cs) > 1 /\ cs[1] = "0" THEN StripZeros(Tail(cs)) ELSE cs

EpochThresholdDigits == <<"1", "0", "0", "0", "0", "0", "0", "0", "0", "0", "0", "0", "0">>

\* x > 1000000000000 for an element of a 2-element list.  A digit string is
\* compared digit-wise (the value does not fit the checker's integers); an int
\* of the model is always below the threshold.
AboveEpochThreshold(x) ==
  IF IsStr(x)
  THEN LET d == StripZeros(x.s) IN
       Len(d) > 13 \/ (Len(d) = 13 /\ d # EpochThresholdDigits)
  ELSE FALSE

\* int(x) succeeds for the element of a pair (ValueError is swallowed)
PairElemOk(x) == IsInt(x) \/ (IsStr(x) /\ StrIsDigit(x.s))

\* 2-element list of epoch milliseconds: first fills bedtime, second school time
ApplyEpochPair(info, item) ==
  LET a == At(item, 0)
      b == At(item, 1)
  IN IF PairElemOk(a) /\ PairElemOk(b) /\ AboveEpochThreshold(a) /\ AboveEpochThreshold(b)
     THEN IF info.bedtime_window = NoWindow
          THEN [info EXCEPT !.bedtime_window = Window(a, b), !.bedtime_active = TRUE]
          ELSE IF info.schooltime_window = NoWindow
          THEN [info EXCEPT !.schooltime_window = Window(a, b), !.schooltime_active = TRUE]
          ELSE info
     ELSE info

\* ScanItem with the CAEQ prefix alone deciding: every CAEQ tuple that is not
\* an 8-element window is read as a daily-limit tuple
ScanItem_PrefixDecides(info, idx, item, env) ==
  IF IsList(item) /\ JLen(item) >= 4
  THEN IF IsStr(At(item, 0))
       THEN IF StartsWith(At(item, 0).s, CAEQ)
            THEN IF JLen(item) = 8 THEN ApplyBedtimeTuple(info, item, env)
                 ELSE ApplyDailyLimitTuple(info, idx, item, env)
            ELSE IF StartsWith(At(item, 0).s, CAMQ)
            THEN IF JLen(item) = 8 THEN ApplySchooltimeTuple(info, item, env) ELSE info
            ELSE info
       ELSE info
  ELSE IF IsList(item) /\ JLen(item) = 2
  THEN ApplyEpochPair(info, item)
  ELSE info

\* one iteration of "for idx, item in enumerate(device_data)"
ScanItem(info, idx, item, env) ==
  IF IsList(item) /\ JLen(item) >= 4
  THEN IF IsStr(At(item, 0))
       THEN IF StartsWith(At(item, 0).s, CAEQ)
            THEN IF JLen(item) = 6 THEN ApplyDailyLimitTuple(info, idx, item, env)
                 ELSE IF JLen(item) = 8 THEN ApplyBedtimeTuple(info, item, env)
                 ELSE info
            ELSE IF StartsWith(At(item, 0).s, CAMQ)
            THEN IF JLen(item) = 8 THEN ApplySchooltimeTuple(info, item, env) ELSE info
            ELSE info
       ELSE info
  ELSE IF IsList(item) /\ JLen(item) = 2
  THEN ApplyEpochPair(info, item)
  ELSE info

RECURSIVE ScanFrom(_, _, _, _)
ScanFrom(info, idx, dd, env) ==
  IF idx >= JLen(dd) THEN info
  ELSE ScanFrom(ScanItem(info, idx, At(dd, idx), env), idx + 1, dd, env)

\* an item on which the scan raises: a gated window tuple whose [hour, minute]
\* pairs datetime.replace rejects
ItemRaises(item, env) ==
  /\ IsList(item) /\ JLen(item) = 8 /\ IsStr(At(item, 0))
  /\ StartsWith(At(item, 0).s, CAEQ) \/ StartsWith(At(item, 0).s, CAMQ)
  /\ WindowGate(item, env)
  /\ ~WindowTimesValid(item)

\* ComputeRemaining without the clamp at zero
ComputeRemaining_NoClamp(info) ==
  IF info.daily_limit_enabled /\ info.daily_limit_minutes > 0
  THEN LET withDaily ==
             SetKey(info, "daily_limit_remaining",
                    Max(0, info.daily_limit_minutes - info.used_minutes))
       IN IF info.bonus_minutes > 0
          THEN [withDaily EXCEPT !.total_allowed_minutes = info.bonus_minutes,
                                 !.remaining_minutes = info.bonus_minutes]
          ELSE [withDaily EXCEPT !.total_allowed_minutes = info.daily_limit_minutes,
                                 !.remaining_minutes =
                                     info.daily_limit_minutes - info.used_minutes]
  ELSE info

\* ComputeRemaining with the bonus added to daily_limit_remaining
ComputeRemaining_BonusInDaily(info) ==
  IF info.daily_limit_enabled /\ info.daily_limit_minutes > 0
  THEN LET withDaily ==
             SetKey(info, "daily_limit_remaining",
                    Max(0, info.daily_limit_minutes + info.bonus_minutes - info.used_minutes))
       IN IF info.bonus_minutes > 0
          THEN [withDaily EXCEPT !.total_allowed_minutes = info.bonus_minutes,
                                 !.remaining_minutes = info.bonus_minutes]
          ELSE [withDaily EXCEPT !.total_allowed_minutes = info.daily_limit_minutes,
                                 !.remaining_minutes =
                                     Max(0, info.daily_limit_minutes - info.used_minutes)]
  ELSE info

\* total_allowed_minutes, remaining_minutes and daily_limit_remaining
ComputeRemaining(info) ==
  IF info.daily_limit_enabled /\ info.daily_limit_minutes > 0
  THEN LET withDaily ==
             SetKey(info, "daily_limit_remaining",
                    Max(0, info.daily_limit_minutes - info.used_minutes))
       IN IF info.bonus_minutes > 0
          THEN [withDaily EXCEPT !.total_allowed_minutes = info.bonus_minutes,
                                 !.remaining_minutes = info.bonus_minutes]
          ELSE [withDaily EXCEPT !.total_allowed_minutes = info.daily_limit_minutes,
                                 !.remaining_minutes =
                                     Max(0, info.daily_limit_minutes - info.used_minutes)]
  ELSE info

\* the body of the loop over data[1] for one device entry
DecodeDevice(dd, env) ==
  IF ~IsList(dd) \/ JLen(dd) < 25 THEN [kind |-> "skip"]
  ELSE LET device_id == ExtractDeviceId(dd) IN
       IF ~Truthy(device_id) THEN [kind |-> "skip"]
       ELSE IF IsList(device_id) THEN [kind |-> "raise"]   \* unhashable dict key
       ELSE IF \E idx \in 0..(JLen(dd) - 1) : ItemRaises(At(dd, idx), env)
       THEN [kind |-> "raise"]
       ELSE [kind |-> "ok",
             device_id |-> device_id,
             locked |-> ParseLockState(dd),
             info |-> ComputeRemaining(
                        ScanFrom(ParseUsedTime(ParseBonusOverride(InitialDeviceInfo, dd), dd),
                                 0, dd, env))]

RECURSIVE DecodeEntries(_, _, _, _)
\* the loop "for device_data in data[1]"; acc is (device_lock_states, devices)
DecodeEntries(entries, k, acc, env) ==
  IF k > Len(entries) THEN acc
  ELSE LET r == DecodeDevice(entries[k], env) IN
       IF r.kind = "raise" THEN [kind |-> "raise"]
       ELSE IF r.kind = "skip" THEN DecodeEntries(entries, k + 1, acc, env)
       ELSE DecodeEntries(entries, k + 1,
              [kind |-> "ok",
               device_lock_states |-> SetKey(acc.device_lock_states, r.device_id, r.locked),
               devices |-> SetKey(acc.devices, r.device_id, r.info)],
              env)

EmptyApplied == [kind |-> "ok", device_lock_states |-> <<>>, devices |-> <<>>]

\* async_get_applied_time_limits on an HTTP-200 body: "raise" is the
\* NetworkError the except clause turns any exception into
DecodeAppliedTimeLimits(body, env) ==
  IF ~(IsList(body) \/ IsStr(body)) THEN [kind |-> "raise"]   \* len()/indexing fails
  ELSE IF IsList(body) /\ JLen(body) > 1 /\ IsList(At(body, 1))
  THEN DecodeEntries(At(body, 1).l, 1, EmptyApplied, env)
  ELSE EmptyApplied

(***************************************************************************)
(* Bounded inputs of the decoder                                           *)
(***************************************************************************)
MaxUsedHours == 2

MaxLimitHours == 2

MaxBonusHalfHours == 1

D1 == JStr(<<"d", "1">>)

D2 == JStr(<<"d", "2">>)

D3 == JStr(<<"d", "3">>)

OV1 == JStr(<<"o", "v", "-", "1">>)

CAEQBg == JStr(<<"C", "A", "E", "Q", "B", "g">>)

CAMQBg == JStr(<<"C", "A", "M", "Q", "B", "g">>)

\* [None, None, action_code, device_id] as async_control_device posts it
LockOverride(code, d) == JList(<<Null, Null, JInt(code), d>>)

\* [override_id, None, 10, device_id, None x 9, [[str(seconds), 0]]]
BonusOverride(id, d, seconds) ==
  JList(<<id, Null, JInt(10), d, Null, Null, Null, Null, Null, Null, Null, Null, Null,
          JList(<<JList(<<JStr(IntToStr(seconds)), JInt(0)>>)>>)>>)

DailyTuple(day, flag, minutes) ==
  JList(<<CAEQBg, JInt(day), JInt(flag), JInt(minutes), Null, Null>>)

\* the 5-element tuple of the test fixtures
ShortDailyTuple(day, flag, minutes) ==
  JList(<<CAEQBg, JInt(day), JInt(flag), JInt(minutes), Null>>)

\* a CAEQ tuple of 7 elements
LongDailyTuple(day, flag, minutes) ==
  JList(<<CAEQBg, JInt(day), JInt(flag), JInt(minutes), Null, Null, Null>>)

WindowTuple(tag, day, flag, sh, sm, eh, em) ==
  JList(<<tag, JInt(day), JInt(flag), JList(<<JInt(sh), JInt(sm)>>),
          JList(<<JInt(eh), JInt(em)>>), Null, Null, Null>>)

\* a 26-slot device entry: override at 0, a at 3, b at 12, used at 20, id at 25
MkEntry(ov, a, b, used, id) ==
  JList([k \in 1..26 |->
           CASE k = 1  -> ov
             [] k = 4  -> a
             [] k = 13 -> b
             [] k = 21 -> used
             [] k = 26 -> id
             [] OTHER  -> Null])

Overrides(d) ==
  {Null, LockOverride(1, d), LockOverride(4, d)}
    \cup {BonusOverride(OV1, d, 1800 * k) : k \in 1..MaxBonusHalfHours}
    \cup {BonusOverride(OV1, d, 59)}

UsedValues == {Null} \cup {JStr(IntToStr(3600000 * k + 1800000)) : k \in 0..MaxUsedHours}

Days == {1, 2}

ActiveItems ==
  {Null, ShortDailyTuple(1, 2, 120), LongDailyTuple(1, 2, 120),
   WindowTuple(CAEQBg, 1, 2, 21, 0, 7, 0)}
    \cup {DailyTuple(day, flag, 60 * h) : day \in Days, flag \in {1, 2}, h \in 0..MaxLimitHours}

ConfigItems == {Null, DailyTuple(1, 2, 90), WindowTuple(CAMQBg, 1, 2, 8, 0, 16, 0)}

Entries(d) ==
  {MkEntry(ov, a, b, used, d) :
     ov \in Overrides(d), a \in ActiveItems, b \in ConfigItems, used \in UsedValues}

\* a second device entry of the same response
SecondEntries ==
  {MkEntry(LockOverride(1, D2), DailyTuple(1, 2, 60), Null, Null, D2),
   MkEntry(Null, WindowTuple(CAEQBg, 1, 2, 25, 0, 7, 0), Null, Null, D2),
   Null}

MaxBonusMinutes == 2

\* the device entry of the test fixtures: 24 elements, the override first, the
\* two millisecond strings, the 5-element tuple at index 10, the id last
FixtureEntry(flag) ==
  JList([k \in 1..24 |->
           CASE k = 1  -> LockOverride(4, D1)
             [] k = 2  -> JStr(IntToStr(7200000))
             [] k = 3  -> JStr(IntToStr(3600000))
             [] k = 11 -> ShortDailyTuple(1, flag, 120)
             [] k = 24 -> D1
             [] OTHER  -> Null])

FixtureResponses == {JList(<<Null, JList(<<FixtureEntry(flag)>>)>>) : flag \in {1, 2}}

\* entries carrying the override async_add_time_bonus posts for m minutes
BonusResponses ==
  {JList(<<Null, JList(<<MkEntry(BonusOverride(Null, D1, 60 * m), a, Null, used, D1)>>)>>) :
     m \in 1..MaxBonusMinutes, a \in {Null, DailyTuple(1, 2, 60)}, used \in UsedValues}

\* entries whose override is too short to carry a device id
ShortOverrideResponses ==
  {JList(<<Null, JList(<<MkEntry(JList(<<Null, Null, JInt(code)>>), Null, Null, Null, D1)>>)>>) :
     code \in {1, 4}}

Responses ==
  {JList(<<Null, JList(<<e>>)>>) : e \in Entries(D1)}
    \cup {JList(<<Null, JList(<<MkEntry(LockOverride(4, D1), DailyTuple(1, 2, 120), Null,
                                       JStr(IntToStr(3600000)), D1), e2>>)>>) :
            e2 \in SecondEntries}
    \cup {JList(<<>>), Null}
    \cup FixtureResponses \cup BonusResponses \cup ShortOverrideResponses

Walls == {[day |-> 1, now |-> 22 * 60], [day |-> 2, now |-> 12 * 60]}

(***************************************************************************)
(* Client (client/api.py): cookies, the lazily built session and Cookie    *)
(* header, re-authentication, and the outcome of every call.  A set of     *)
(* cookies is named by its generation: the n-th set the add-on handed out. *)
(* A cached dictionary or header holds the generation it was built from,   *)
(* 0 when it was built while no cookies were loaded (empty).               *)
(***************************************************************************)
MaxLoads == 2

\* self._cookies is None
NoCookies == 0

\* self._session is None
NoSession == [gen |-> 0, closed |-> FALSE]

\* the attribute _cookie_dict / _cookie_header does not exist
Absent == -1

NoCall == [pc |-> "idle"]

NoReply ==
  [endpoint |-> "none", lookup |-> "none", sent |-> FALSE, answer |-> "none",
   result |-> "none", header |-> Absent, signature |-> Absent, newest |-> 0,
   settled |-> TRUE]

InitClient ==
  /\ cookies = NoCookies
  /\ session = NoSession
  /\ cookie_dict = Absent
  /\ cookie_header = Absent
  /\ refresh_pc = "idle"
  /\ loads = 0
  /\ suspended = NoCall
  /\ reply = NoReply

ReadEndpoints ==
  {"async_get_family_members", "async_get_apps_and_usage",
   "async_get_daily_screen_time", "async_get_time_limit",
   "async_get_applied_time_limits"}

\* the enable/disable commands that look their rule id up first
ToggleEndpoints ==
  {"async_enable_bedtime", "async_disable_bedtime",
   "async_enable_school_time", "async_disable_school_time"}

CommandEndpoints ==
  {"async_block_app", "async_unblock_app", "async_control_device",
   "async_add_time_bonus", "async_cancel_time_bonus",
   "async_enable_daily_limit", "async_disable_daily_limit",
   "async_set_daily_limit", "async_set_bedtime"} \cup ToggleEndpoints

\* what the backend answers to one request
Answers == {"ok", "http401", "http500", "neterr"}

\* what the rule-id lookup of a toggle command meets: a body with the rule
\* id, a body without it, or a failure
LookupAnswers == {"rule", "norule", "http401", "http500", "neterr"}

IsAuthenticated(ck) == ck # NoCookies

\* _get_cookies_dict: the dictionary it returns (and caches)
GetCookiesDict(ck, cd) == IF cd = Absent THEN ck ELSE cd

\* _get_cookie_header: the header it returns (and caches)
GetCookieHeader(ck, cd, ch) ==
  IF ch = Absent THEN GetCookiesDict(ck, cd) ELSE ch

\* _get_session: a cached session is returned as it is; a new one is signed
\* with the SAPISID of the loaded cookies, and cannot be built without them
GetSession(ck, se) ==
  IF se # NoSession THEN [raises |-> FALSE, session |-> se]
  ELSE IF ck = NoCookies THEN [raises |-> TRUE, session |-> se]
  ELSE [raises |-> FALSE, session |-> [gen |-> ck, closed |-> FALSE]]

\* "session = await self._get_session(); cookie_header =
\* self._get_cookie_header()" followed by the request: the caches afterwards,
\* and whether a request left (a closed session refuses to send)
Prepare(ck, se, cd, ch) ==
  IF GetSession(ck, se).raises
  THEN [sent |-> FALSE, session |-> se, cookie_dict |-> cd,
        cookie_header |-> ch]
  ELSE [sent |-> ~GetSession(ck, se).session.closed,
        session |-> GetSession(ck, se).session,
        cookie_dict |-> IF ch = Absent THEN GetCookiesDict(ck, cd) ELSE cd,
        cookie_header |-> GetCookieHeader(ck, cd, ch)]

\* the outcome of a call whose request was answered with an HTTP status
OnStatus(ep, st) ==
  IF ep \in {"async_get_family_members", "async_get_apps_and_usage",
             "async_get_daily_screen_time"}
  THEN CASE st = "ok" -> "data"
         [] st = "http401" -> "SessionExpiredError"
         [] OTHER -> "NetworkError"
  ELSE IF ep \in {"async_get_time_limit", "async_get_applied_time_limits"}
  THEN CASE st = "ok" -> "data"
         [] st = "http401" -> "NetworkError"
         [] OTHER -> "default"
  ELSE IF ep \in {"async_block_app", "async_unblock_app"}
  THEN CASE st = "ok" -> "true"
         [] st = "http401" -> "SessionExpiredError"
         [] OTHER -> "false"
  ELSE IF st = "ok" THEN "true" ELSE "false"

\* the outcome of a call in which an exception other than an HTTP status
\* was raised inside the try block
OnException(ep) ==
  IF ep \in ReadEndpoints THEN "NetworkError"
  ELSE IF ep = "async_control_device" THEN "DeviceControlError"
  ELSE "false"

\* the outcome of a call that did not pass is_authenticated()
OnUnauthenticated(ep) ==
  IF ep = "async_get_daily_screen_time" THEN "NetworkError"
  ELSE "AuthenticationError"

\* the outcome of the request part of a call
RequestResult(ep, sent, answer) ==
  IF ~sent \/ answer = "neterr" THEN OnException(ep) ELSE OnStatus(ep, answer)

\* what is remembered of the last call: its outcome and, for a request that
\* left, the cookie generations its header and signature were built from
Reply(ep, lookup, p, answer, result) ==
  [endpoint |-> ep, lookup |-> lookup, sent |-> p.sent,
   answer |-> IF p.sent THEN answer ELSE "none", result |-> result,
   header |-> IF p.sent THEN p.cookie_header ELSE Absent,
   signature |-> IF p.sent THEN p.session.gen ELSE Absent,
   newest |-> loads, settled |-> refresh_pc = "idle"]

NotSent == [sent |-> FALSE]

\* coordinator._async_setup_client: async_authenticate on a new client
Authenticate(ok) ==
  /\ loads = 0
  /\ refresh_pc = "idle"
  /\ cookies' = IF ok THEN 1 ELSE NoCookies
  /\ loads' = IF ok THEN 1 ELSE 0
  /\ UNCHANGED <<session, cookie_dict, cookie_header, refresh_pc, suspended, reply>>
  /\ UNCHANGED <<resp, wall, decoded>>
  /\ UNCHANGED coordVars

\* async_refresh_session up to its first suspension: session.close() may or
\* may not give control to other tasks
RefreshSessionStart(suspends) ==
  /\ refresh_pc = "idle"
  /\ loads >= 1
  /\ loads < MaxLoads
  /\ cookies' = NoCookies
  /\ cookie_dict' = Absent
  /\ cookie_header' = Absent
  /\ IF session # NoSession /\ suspends
     THEN /\ session' = [session EXCEPT !.closed = TRUE]
          /\ refresh_pc' = "closing"
     ELSE /\ session' = NoSession
          /\ refresh_pc' = "authenticating"
  /\ UNCHANGED <<loads, suspended, reply>>
  /\ UNCHANGED <<resp, wall, decoded>>
  /\ UNCHANGED coordVars

\* async_refresh_session resumes after session.close()
RefreshSessionClosed ==
  /\ refresh_pc = "closing"
  /\ session' = NoSession
  /\ refresh_pc' = "authenticating"
  /\ UNCHANGED <<cookies, cookie_dict, cookie_header, loads, suspended, reply>>
  /\ UNCHANGED <<resp, wall, decoded>>
  /\ UNCHANGED coordVars

\* async_refresh_session ends with async_authenticate
RefreshSessionEnds(ok) ==
  /\ refresh_pc = "authenticating"
  /\ cookies' = IF ok THEN loads + 1 ELSE cookies
  /\ loads' = IF ok THEN loads + 1 ELSE loads
  /\ refresh_pc' = "idle"
  /\ UNCHANGED <<session, cookie_dict, cookie_header, suspended, reply>>
  /\ UNCHANGED <<resp, wall, decoded>>
  /\ UNCHANGED coordVars

\* the client after Prepare
Prepared(p) ==
  /\ session' = p.session
  /\ cookie_dict' = p.cookie_dict
  /\ cookie_header' = p.cookie_header

\* a call with a single request: every read, and every command but the
\* toggles
ClientCall(ep, answer) ==
  /\ IF IsAuthenticated(cookies)
     THEN /\ Prepared(Prepare(cookies, session, cookie_dict, cookie_header))
          /\ reply' = Reply(ep, "none",
                            Prepare(cookies, session, cookie_dict, cookie_header),
                            answer,
                            RequestResult(ep,
                              Prepare(cookies, session, cookie_dict,
                                      cookie_header).sent, answer))
     ELSE /\ reply' = Reply(ep, "none", NotSent, answer, OnUnauthenticated(ep))
          /\ UNCHANGED <<session, cookie_dict, cookie_header>>
  /\ UNCHANGED <<cookies, refresh_pc, loads, suspended>>
  /\ UNCHANGED <<resp, wall, decoded>>
  /\ UNCHANGED coordVars

\* a toggle command up to the suspension of its rule-id lookup
\* (async_get_time_limit, outside the command's try block)
ToggleLookupStart(ep) ==
  /\ suspended = NoCall
  /\ IF IsAuthenticated(cookies)
     THEN /\ Prepared(Prepare(cookies, session, cookie_dict, cookie_header))
          /\ IF Prepare(cookies, session, cookie_dict, cookie_header).sent
             THEN /\ suspended' = [pc |-> "lookup", endpoint |-> ep]
                  /\ reply' = Reply("async_get_time_limit", "none",
                                    Prepare(cookies, session, cookie_dict,
                                            cookie_header),
                                    "none", "pending")
             ELSE /\ suspended' = NoCall
                  /\ reply' = Reply(ep, "neterr", NotSent, "none",
                                    OnException("async_get_time_limit"))
     ELSE /\ reply' = Reply(ep, "none", NotSent, "none", OnUnauthenticated(ep))
          /\ UNCHANGED <<session, cookie_dict, cookie_header, suspended>>
  /\ UNCHANGED <<cookies, refresh_pc, loads>>
  /\ UNCHANGED <<resp, wall, decoded>>
  /\ UNCHANGED coordVars

\* the lookup is answered and the toggle command goes on: without a rule id
\* it returns, with one it sends its own request
ToggleLookupEnds(lookup, answer) ==
  /\ suspended.pc = "lookup"
  /\ suspended' = NoCall
  /\ IF lookup = "rule"
     THEN /\ Prepared(Prepare(cookies, session, cookie_dict, cookie_header))
          /\ reply' = Reply(suspended.endpoint, lookup,
                            Prepare(cookies, session, cookie_dict, cookie_header),
                            answer,
                            RequestResult(suspended.endpoint,
                              Prepare(cookies, session, cookie_dict,
                                      cookie_header).sent, answer))
     ELSE /\ reply' = Reply(suspended.endpoint, lookup, NotSent, "none",
                            IF lookup \in {"norule", "http500"}
                            THEN "false"
                            ELSE RequestResult("async_get_time_limit", TRUE,
                                               lookup))
          /\ UNCHANGED <<session, cookie_dict, cookie_header>>
  /\ UNCHANGED <<cookies, refresh_pc, loads>>
  /\ UNCHANGED <<resp, wall, decoded>>
  /\ UNCHANGED coordVars

(***************************************************************************)
(* Coordinator (coordinator.py): pending lock overlay and poll cycle.      *)
(* A pending entry (value, timestamp) is kept as [value, age], age being   *)
(* time.time() - timestamp in whole seconds; Tick lets one second pass.    *)
(* Ages stop growing at the TTL, beyond which the code treats all alike.   *)
(***************************************************************************)
LockTTL == 5

JBool(b) == [t |-> "bool", b |-> b]

NoData == [t |-> "null"]

\* dict.get(k, default)
Get(d, k, default) == IF k \in DOMAIN d THEN d[k] ELSE default

\* del d[k]
DelKey(d, k) == [x \in (DOMAIN d) \ {k} |-> d[x]]

EmptyDict == <<>>

TimeLimitTTL == 5

ChildIds == {"c1", "c2"}

MaxCommands == 1

LimitTypes == {"bedtime", "school_time", "daily_limit"}

NoSet == [t |-> "null"]

InitCoordinator ==
  /\ client = "none"
  /\ is_retrying_auth = FALSE
  /\ pending_lock_states = EmptyDict
  /\ devices = EmptyDict
  /\ data = NoData
  /\ last_update_success = TRUE
  /\ pc = "idle"
  /\ cycle = [outcome |-> "none"]
  /\ cmd = [kind |-> "none"]
  /\ ncmd = 0
  /\ pending_time_limit_states = EmptyDict
  /\ last_set = [key \in ChildIds \X LimitTypes |-> NoSet]

(***************************************************************************)
(* The backend as one poll cycle sees it                                   *)
(***************************************************************************)
\* family members in the order of the members response; "p1" is the parent
Members == <<"p1", "c1", "c2">>

IsSupervisedMember(m) == m \in ChildIds

\* the deviceInfo lists appsandusage can answer for a child
Listings(c) == IF c = "c1" THEN {<<D1, D2>>, <<D2>>} ELSE {<<D3>>}

\* the appliedTimeLimits bodies the backend can answer for a child
AppliedBodies(c) ==
  IF c = "c1"
  THEN {JList(<<Null, JList(<<
          MkEntry(LockOverride(1, D1), DailyTuple(1, 2, 120), Null, JStr(IntToStr(3600000)), D1),
          MkEntry(Null, Null, Null, Null, D2)>>)>>),
        JList(<<Null, JList(<<
          MkEntry(BonusOverride(OV1, D1, 1800), DailyTuple(1, 1, 120), Null, Null, D1),
          MkEntry(LockOverride(1, D2), DailyTuple(1, 2, 60), Null, JStr(IntToStr(7200000)), D2)>>)>>)}
  ELSE {JList(<<Null, JList(<<
          MkEntry(LockOverride(4, D3), DailyTuple(1, 2, 60), Null, Null, D3)>>)>>)}

\* what async_get_time_limit decodes for a child on HTTP 200
TimeLimitConfig(c) ==
  [bedtime_enabled |-> (c = "c1"), school_time_enabled |-> (c = "c2")]

SubFetches == {"apps", "time_limit", "applied", "screen"}

Calls == {<<"family", "members">>} \cup {<<c, f>> : c \in ChildIds, f \in SubFetches}

FailKinds == {"http401", "http500", "neterr"}

\* the calls that fail within one fetch: none, or any single one
FailingCalls == {{}} \cup {{call} : call \in Calls}

\* the clock of the poll cycles (datetime.now() in async_get_applied_time_limits)
PollClock == [day |-> 1, now |-> 22 * 60]

\* the decoder's result for every body the backend can answer
AppliedDecoded ==
  [c \in ChildIds |-> [b \in AppliedBodies(c) |-> DecodeAppliedTimeLimits(b, PollClock)]]

\* the backend's answers to one fetch: fails maps the failing calls to the way
\* they fail, listing and applied are the bodies of the calls that succeed
Backends ==
  {[fails |-> f, listing |-> l, applied |-> a] :
     f \in UNION {[F -> FailKinds] : F \in FailingCalls},
     l \in {x \in [ChildIds -> UNION {Listings(c) : c \in ChildIds}] :
              \A c \in ChildIds : x[c] \in Listings(c)},
     a \in {x \in [ChildIds -> UNION {AppliedBodies(c) : c \in ChildIds}] :
              \A c \in ChildIds : x[c] \in AppliedBodies(c)}}

\* how a read call of the client ends: every call first checks is_authenticated()
CallOutcome(cl, be, call) ==
  IF cl # "auth" THEN "autherr"
  ELSE IF call \in DOMAIN be.fails THEN be.fails[call]
  ELSE "ok"

\* whether the client raises: timeLimit and appliedTimeLimits answer a non-200,
\* non-401 status with their empty default instead of raising
ClientRaises(call, outcome) ==
  IF call[2] \in {"time_limit", "applied"}
  THEN outcome \in {"http401", "neterr", "autherr"}
  ELSE outcome # "ok"

\* the fields copied from time_data onto the device (time_data.get(...))
TimeFields(td) ==
  [ total_allowed_minutes |-> td.total_allowed_minutes,
    used_minutes          |-> td.used_minutes,
    remaining_minutes     |-> td.remaining_minutes,
    daily_limit_enabled   |-> td.daily_limit_enabled,
    daily_limit_minutes   |-> td.daily_limit_minutes,
    daily_limit_remaining |-> IF HasKey(td, "daily_limit_remaining")
                              THEN JInt(td.daily_limit_remaining) ELSE Null,
    bedtime_window        |-> td.bedtime_window,
    schooltime_window     |-> td.schooltime_window,
    bedtime_active        |-> td.bedtime_active,
    schooltime_active     |-> td.schooltime_active,
    bonus_minutes         |-> td.bonus_minutes,
    bonus_override_id     |-> td.bonus_override_id ]

\* variant of MergeDevice in which the backend's lock state always wins
MergeDevice_IgnoresPending(device, pend, lock_states, time_data) ==
  LET withLock == [locked |-> Get(lock_states, device.id, FALSE)] @@ device IN
  IF device.id \in DOMAIN time_data
  THEN TimeFields(time_data[device.id]) @@ withLock
  ELSE withLock

\* one iteration of "for device in devices": the pending overlay, then the
\* decoded lock state and the time data
MergeDevice(device, pend, lock_states, time_data) ==
  IF device.id \in DOMAIN pend /\ pend[device.id].age < LockTTL
  THEN [locked |-> pend[device.id].locked] @@ device
  ELSE LET withLock == [locked |-> Get(lock_states, device.id, FALSE)] @@ device IN
       IF device.id \in DOMAIN time_data
       THEN TimeFields(time_data[device.id]) @@ withLock
       ELSE withLock

\* the pending map after that iteration: an expired entry is deleted
MergePending(device, pend) ==
  IF device.id \in DOMAIN pend /\ ~(pend[device.id].age < LockTTL)
  THEN DelKey(pend, device.id)
  ELSE pend

RECURSIVE MergeDevices(_, _, _, _, _)
MergeDevices(devs, k, pend, lock_states, time_data) ==
  IF k > Len(devs) THEN [devices |-> devs, pending |-> pend]
  ELSE MergeDevices([devs EXCEPT ![k] = MergeDevice(devs[k], pend, lock_states, time_data)],
                    k + 1, MergePending(devs[k], pend), lock_states, time_data)

\* "if ANY device has daily_limit enabled"
AggregateDailyLimit(devs) ==
  \E k \in 1..Len(devs) :
    HasKey(devs[k], "daily_limit_enabled") /\ devs[k].daily_limit_enabled

ScreenTime == [t |-> "screen_time"]

AppList == JList(<<JStr(<<"a", "p", "p">>)>>)

\* what the applied-time-limits call leaves the loop body with
AppliedResult(c, be, appliedOut) ==
  IF appliedOut = "ok" THEN AppliedDecoded[c][be.applied[c]]
  ELSE IF appliedOut = "http500" THEN EmptyApplied
  ELSE [kind |-> "raise"]

\* variant of TimeLimitFlag that reports the configuration although the call raised
TimeLimitFlag_NoDefault(c, tlOut, field) == JBool(TimeLimitConfig(c)[field])

\* the time-limit configuration of the child, None when the call raised
TimeLimitFlag(c, tlOut, field) ==
  IF ClientRaises(<<c, "time_limit">>, tlOut) THEN Null
  ELSE IF tlOut = "ok" THEN JBool(TimeLimitConfig(c)[field])
  ELSE JBool(FALSE)

\* child_data as built at the end of the loop body
ChildRecord(c, cl, be, merged, time_data, lock_states, applied) ==
  [ child_data |->
      [ child_id |-> c,
        devices |-> merged.devices,
        screen_time |-> IF CallOutcome(cl, be, <<c, "screen">>) = "ok"
                        THEN ScreenTime ELSE Null,
        apps |-> IF CallOutcome(cl, be, <<c, "apps">>) = "ok"
                 THEN AppList ELSE JList(<<>>),
        bedtime_enabled |->
          TimeLimitFlag(c, CallOutcome(cl, be, <<c, "time_limit">>), "bedtime_enabled"),
        school_time_enabled |->
          TimeLimitFlag(c, CallOutcome(cl, be, <<c, "time_limit">>), "school_time_enabled"),
        daily_limit_enabled |-> AggregateDailyLimit(merged.devices),
        devices_time_data |-> time_data ],
    pending |-> merged.pending,
    lock_states |-> lock_states,
    raised |-> {f \in SubFetches :
                  ClientRaises(<<c, f>>, CallOutcome(cl, be, <<c, f>>))
                  \/ (f = "applied" /\ applied.kind = "raise")},
    expired |-> \E f \in SubFetches : CallOutcome(cl, be, <<c, f>>) = "http401" ]

\* the device list of the apps/usage answer, [] when the call failed
ListedDevices(c, cl, be) ==
  IF CallOutcome(cl, be, <<c, "apps">>) = "ok"
  THEN [k \in 1..Len(be.listing[c]) |-> [id |-> be.listing[c][k], child_id |-> c]]
  ELSE <<>>

\* the merge of the loop body, given the decoded applied time limits
MergeChild(c, cl, be, pend, lock_states, time_data, applied) ==
  ChildRecord(c, cl, be,
              MergeDevices(ListedDevices(c, cl, be), 1, pend, lock_states, time_data),
              time_data, lock_states, applied)

\* device_lock_states / devices_time_data stay {} when the call raised
AppliedPart(applied, part) ==
  IF applied.kind = "ok" THEN applied[part] ELSE EmptyDict

SplitApplied(c, cl, be, pend, applied) ==
  MergeChild(c, cl, be, pend, AppliedPart(applied, "device_lock_states"),
             AppliedPart(applied, "devices"), applied)

\* the loop body "for child in supervised_children" of _async_fetch_data
FetchChild(c, cl, be, pend) ==
  SplitApplied(c, cl, be, pend,
               AppliedResult(c, be, CallOutcome(cl, be, <<c, "applied">>)))

\* the state of the loop after one more child
LoopStep(acc, c, r) ==
  [ children_data |-> Append(acc.children_data, r.child_data),
    pending |-> r.pending,
    lock_states |-> SetKey(acc.lock_states, c, r.lock_states),
    raised |-> acc.raised \cup {<<c, f>> : f \in r.raised},
    expired |-> acc.expired \/ r.expired ]

RECURSIVE FetchChildren(_, _, _, _, _)
\* acc gathers children_data, the pending map and the history of the loop
FetchChildren(children, k, cl, be, acc) ==
  IF k > Len(children) THEN acc
  ELSE FetchChildren(children, k + 1, cl, be,
         LoopStep(acc, children[k], FetchChild(children[k], cl, be, acc.pending)))

\* the _devices cache: one entry per device of every child, keyed child_device
DeviceCache(children_data) ==
  LET slots == UNION {{<<k, j>> : j \in 1..Len(children_data[k].devices)} :
                        k \in 1..Len(children_data)}
      KeyOf(x) == <<children_data[x[1]].child_id, children_data[x[1]].devices[x[2]].id>>
  IN [key \in {KeyOf(x) : x \in slots} |->
        LET x == CHOOSE y \in slots : KeyOf(y) = key
        IN children_data[x[1]].devices[x[2]]]

\* how _async_setup_client ends: the client is built and authenticated, the
\* constructor raises (client stays None), or async_authenticate raises
SetupOutcomes == {"ok", "ctor_error", "auth_error"}

\* _async_setup_client runs only while there is no client
SetupFor(cl) == IF cl = "none" THEN SetupOutcomes ELSE {"ok"}

\* the exception classes _async_update_data tells apart
SetupException(so) == IF so = "auth_error" THEN "AuthenticationError" ELSE "Exception"

\* the family members the fetch supervises, [] when the members call failed
Supervised(membersOut) ==
  IF membersOut = "ok" THEN SelectSeq(Members, IsSupervisedMember) ELSE <<>>

\* history: the per-child calls of the fetch that did not answer 200, with the
\* way they failed
FailedCalls(cl, be, children) ==
  [call \in {x \in Calls : /\ \E k \in 1..Len(children) : children[k] = x[1]
                            /\ CallOutcome(cl, be, x) # "ok"} |->
     CallOutcome(cl, be, call)]

\* what _async_fetch_data returns, and what it leaves behind
FetchReturns(cl, membersOut, failed, r) ==
  [ exc |-> "none",
    client |-> cl,
    pending |-> r.pending,
    cache |-> DeviceCache(r.children_data),
    snapshot |-> [ family_members |-> IF membersOut = "ok" THEN JList(Members) ELSE Null,
                   supervised_children |-> Supervised(membersOut),
                   children_data |-> r.children_data ],
    expired |-> membersOut = "http401" \/ r.expired,
    members |-> membersOut,
    raised |-> r.raised,
    failed |-> failed,
    lock_states |-> r.lock_states ]

\* _async_fetch_data with a client: the members call, then the loop
FetchWithClient(cl, be, pend) ==
  FetchReturns(cl, CallOutcome(cl, be, <<"family", "members">>),
    FailedCalls(cl, be, Supervised(CallOutcome(cl, be, <<"family", "members">>))),
    FetchChildren(Supervised(CallOutcome(cl, be, <<"family", "members">>)), 1, cl, be,
      [ children_data |-> <<>>, pending |-> pend, lock_states |-> EmptyDict,
        raised |-> {}, expired |-> FALSE ]))

\* _async_fetch_data: exc is the exception that escapes it ("none": it returns)
AsyncFetchData(cl, so, be, pend, cache) ==
  IF cl = "none" /\ so # "ok"
  THEN [ exc |-> SetupException(so),
         client |-> IF so = "auth_error" THEN "unauth" ELSE "none",
         pending |-> pend, cache |-> cache,
         expired |-> FALSE, members |-> "not_called", raised |-> {},
         failed |-> EmptyDict, lock_states |-> EmptyDict ]
  ELSE FetchWithClient(IF cl = "none" THEN "auth" ELSE cl, be, pend)

RefreshOutcomes == {"ok", "error"}

\* _async_refresh_auth: a failed refresh clears the client
RefreshAuth(cl, ro) ==
  IF cl = "none" THEN "none" ELSE IF ro = "ok" THEN "auth" ELSE "none"

\* the host scheduler (or a requested refresh) invokes _async_update_data
UpdateStart ==
  /\ pc = "idle"
  /\ pc' = "fetching"
  /\ cycle' = [outcome |-> "running"]
  /\ UNCHANGED <<client, is_retrying_auth, pending_lock_states, devices, data,
                 last_update_success>>
  /\ UNCHANGED userVars
  /\ UNCHANGED decVars

\* _async_update_data returns r.snapshot: the host publishes it
UpdateReturns(r, retrying, reauths, fetches) ==
  /\ data' = r.snapshot
  /\ last_update_success' = TRUE
  /\ client' = r.client
  /\ pending_lock_states' = r.pending
  /\ devices' = r.cache
  /\ is_retrying_auth' = retrying
  /\ cycle' = [ outcome |-> "returned", expired |-> r.expired, reauths |-> reauths,
                fetches |-> fetches, members |-> r.members, raised |-> r.raised,
                failed |-> r.failed, lock_states |-> r.lock_states ]

\* UpdateFails with the guard flag left set, as without the finally clause
UpdateFails_FlagLeftSet(r, retrying, reauths, fetches, expired) ==
  /\ data' = data
  /\ last_update_success' = FALSE
  /\ client' = r.client
  /\ pending_lock_states' = r.pending
  /\ devices' = r.cache
  /\ is_retrying_auth' = TRUE
  /\ cycle' = [ outcome |-> "update_failed", expired |-> expired, reauths |-> reauths,
                fetches |-> fetches, members |-> r.members, raised |-> r.raised,
                failed |-> r.failed, lock_states |-> r.lock_states ]

\* _async_update_data raises UpdateFailed: the host keeps the old snapshot
UpdateFails(r, retrying, reauths, fetches, expired) ==
  /\ data' = data
  /\ last_update_success' = FALSE
  /\ client' = r.client
  /\ pending_lock_states' = r.pending
  /\ devices' = r.cache
  /\ is_retrying_auth' = retrying
  /\ cycle' = [ outcome |-> "update_failed", expired |-> expired, reauths |-> reauths,
                fetches |-> fetches, members |-> r.members, raised |-> r.raised,
                failed |-> r.failed, lock_states |-> r.lock_states ]

\* the retry of _async_update_data, r2 being the second fetch
RetryEnds(r1, r2) ==
  IF r2.exc = "none"
  THEN UpdateReturns(r2, FALSE, 1, 2)
  ELSE UpdateFails(r2, FALSE, 1, 2, r1.expired \/ r2.expired)

\* FetchEnds re-authenticating and fetching again for as long as a call of the
\* fetch answered HTTP 401
FetchEnds_RetryLoop(r1, backends) ==
  IF r1.exc = "none"
  THEN UpdateReturns(r1, is_retrying_auth, IF r1.expired THEN 2 ELSE 0,
                     IF r1.expired THEN 3 ELSE 1)
  ELSE UpdateFails(r1, is_retrying_auth, 0, 1, r1.expired)

\* FetchEnds without the final 'except Exception' clause
FetchEnds_NoCatchAll(r1, backends) ==
  IF r1.exc = "none"
  THEN UpdateReturns(r1, is_retrying_auth, 0, 1)
  ELSE IF r1.exc = "Exception"
  THEN /\ data' = data
       /\ last_update_success' = FALSE
       /\ client' = r1.client
       /\ pending_lock_states' = r1.pending
       /\ devices' = r1.cache
       /\ is_retrying_auth' = is_retrying_auth
       /\ cycle' = [ outcome |-> "escaped", expired |-> r1.expired, reauths |-> 0,
                     fetches |-> 1, members |-> r1.members, raised |-> r1.raised,
                     failed |-> r1.failed, lock_states |-> r1.lock_states ]
  ELSE UpdateFails(r1, is_retrying_auth, 0, 1, r1.expired)

\* the except clauses of _async_update_data, r1 being the first fetch
FetchEnds(r1, backends) ==
  IF r1.exc = "none"
  THEN UpdateReturns(r1, is_retrying_auth, 0, 1)
  ELSE IF r1.exc = "SessionExpiredError"
  THEN IF is_retrying_auth
       THEN UpdateFails(r1, is_retrying_auth, 0, 1, r1.expired)
       ELSE \E ro \in RefreshOutcomes, be2 \in backends :
            \E so2 \in SetupFor(RefreshAuth(r1.client, ro)) :
              RetryEnds(r1, AsyncFetchData(RefreshAuth(r1.client, ro), so2, be2,
                                           r1.pending, r1.cache))
  ELSE UpdateFails(r1, is_retrying_auth, 0, 1, r1.expired)

\* the body of _async_update_data: the fetch, and on SessionExpiredError one
\* re-authentication and one retry; backends are the answers the backend can give
AsyncUpdateData(backends) ==
  /\ pc = "fetching"
  /\ pc' = "idle"
  /\ \E so \in SetupFor(client), be \in backends :
       FetchEnds(AsyncFetchData(client, so, be, pending_lock_states, devices), backends)
  /\ UNCHANGED userVars
  /\ UNCHANGED decVars

\* one more second on an entry; ages stop at the TTL
Older(e, ttl) == IF e.age < ttl THEN [e EXCEPT !.age = e.age + 1] ELSE e

\* one second passes: every pending entry grows older
Tick ==
  /\ pending_lock_states' =
       [d \in DOMAIN pending_lock_states |-> Older(pending_lock_states[d], LockTTL)]
  /\ pending_time_limit_states' =
       [c \in DOMAIN pending_time_limit_states |->
          [k \in DOMAIN pending_time_limit_states[c] |->
             Older(pending_time_limit_states[c][k], TimeLimitTTL)]]
  /\ last_set' = [key \in DOMAIN last_set |->
                    IF last_set[key] = NoSet THEN NoSet
                    ELSE Older(last_set[key], TimeLimitTTL)]
  /\ UNCHANGED pollVars
  /\ UNCHANGED <<cmd, ncmd>>
  /\ UNCHANGED decVars

DEVICE_LOCK_ACTION == "lock"

DEVICE_UNLOCK_ACTION == "unlock"

\* the children of the published snapshot
SnapshotChildren ==
  IF data = NoData THEN {}
  ELSE {data.children_data[k].child_id : k \in 1..Len(data.children_data)}

\* child_data of child c in the published snapshot
ChildData(c) ==
  data.children_data[CHOOSE k \in 1..Len(data.children_data) :
                       data.children_data[k].child_id = c]

\* the devices of the published snapshot, child by child
SnapshotDevices ==
  UNION {{<<c, ChildData(c).devices[j].id>> : j \in 1..Len(ChildData(c).devices)} :
           c \in SnapshotChildren}

\* FamilyLinkDeviceSwitch._get_current_device().get("locked", False)
DeviceLocked(c, d) ==
  IF <<c, d>> \in SnapshotDevices
  THEN LET devs == ChildData(c).devices
           dev == devs[CHOOSE j \in 1..Len(devs) : devs[j].id = d]
       IN dev.locked
  ELSE FALSE

\* FamilyLinkDeviceSwitch.async_turn_on / async_turn_off call
\* coordinator.async_control_device, which awaits the client's command
ControlDeviceStart(c, d, action) ==
  /\ cmd.kind = "none"
  /\ ncmd < MaxCommands
  /\ <<c, d>> \in SnapshotDevices
  /\ \E so \in SetupFor(client) :
       IF client = "none" /\ so # "ok"
       THEN /\ client' = (IF so = "auth_error" THEN "unauth" ELSE "none")
            /\ cmd' = cmd
       ELSE /\ client' = (IF client = "none" THEN "auth" ELSE client)
            /\ cmd' = [kind |-> "control", device |-> d, action |-> action, child_id |-> c]
  /\ ncmd' = ncmd + 1
  /\ UNCHANGED <<is_retrying_auth, pending_lock_states, devices, data,
                 last_update_success, pc, cycle>>
  /\ UNCHANGED <<pending_time_limit_states, last_set>>
  /\ UNCHANGED decVars

\* how the POST of the client's async_control_device ends
ControlOutcomes == {"ok", "http401", "http500", "neterr"}

\* client.async_control_device: True on 200, False on another status; every
\* exception becomes DeviceControlError, which the coordinator turns into False
ControlSuccess(cl, outcome) == cl = "auth" /\ outcome = "ok"

\* the command completes; on success the expected lock state is stored
ControlDeviceFinish ==
  /\ cmd.kind = "control"
  /\ \E outcome \in ControlOutcomes :
       pending_lock_states' =
         IF ControlSuccess(client, outcome)
         THEN SetKey(pending_lock_states, cmd.device,
                     [locked |-> (cmd.action = DEVICE_LOCK_ACTION), age |-> 0])
         ELSE pending_lock_states
  /\ cmd' = [kind |-> "none"]
  /\ UNCHANGED pollVars
  /\ UNCHANGED <<ncmd, pending_time_limit_states, last_set>>
  /\ UNCHANGED decVars

\* variant of SetPendingTimeLimitState that records nothing
SetPendingTimeLimitState_Dropped(p, child_id, limit_type, enabled) == p

\* set_pending_time_limit_state(child_id, limit_type, enabled)
SetPendingTimeLimitState(p, child_id, limit_type, enabled) ==
  LET p1 == IF child_id \in DOMAIN p THEN p ELSE SetKey(p, child_id, EmptyDict)
  IN [p1 EXCEPT ![child_id] = SetKey(p1[child_id], limit_type,
                                     [enabled |-> enabled, age |-> 0])]

\* variant of GetPendingTimeLimitState that leaves an expired entry in the map
GetPendingTimeLimitState_KeepsExpired(p, child_id, limit_type) ==
  IF child_id \in DOMAIN p /\ limit_type \in DOMAIN Get(p, child_id, EmptyDict)
     /\ Get(Get(p, child_id, EmptyDict), limit_type, [age |-> 0]).age < TimeLimitTTL
  THEN [ret |-> JBool(p[child_id][limit_type].enabled), pending |-> p]
  ELSE [ret |-> Null, pending |-> p]

\* get_pending_time_limit_state(child_id, limit_type): ret is the value
\* returned, pending the map it leaves behind
GetPendingTimeLimitState(p, child_id, limit_type) ==
  IF child_id \notin DOMAIN p THEN [ret |-> Null, pending |-> p]
  ELSE IF limit_type \notin DOMAIN p[child_id] THEN [ret |-> Null, pending |-> p]
  ELSE IF p[child_id][limit_type].age < TimeLimitTTL
       THEN [ret |-> JBool(p[child_id][limit_type].enabled), pending |-> p]
       ELSE [ret |-> Null,
             pending |-> [p EXCEPT ![child_id] = DelKey(p[child_id], limit_type)]]

\* child_data.get("<limit_type>_enabled") of the published snapshot
SnapshotEnabled(c, limit_type) ==
  IF c \notin SnapshotChildren THEN Null
  ELSE IF limit_type = "bedtime" THEN ChildData(c).bedtime_enabled
  ELSE IF limit_type = "school_time" THEN ChildData(c).school_time_enabled
  ELSE JBool(ChildData(c).daily_limit_enabled)

\* the is_on property of the bedtime / school-time / daily-limit switch
IsOn(c, limit_type) ==
  LET pending_state == GetPendingTimeLimitState(pending_time_limit_states, c, limit_type).ret
  IN IF pending_state # Null THEN pending_state.b
     ELSE IF SnapshotEnabled(c, limit_type) # Null THEN SnapshotEnabled(c, limit_type).b
     ELSE FALSE

\* the host reads is_on of a time-limit switch; an expired entry is cleaned up
ReadIsOn(c, limit_type) ==
  /\ c \in SnapshotChildren
  /\ pending_time_limit_states' =
       GetPendingTimeLimitState(pending_time_limit_states, c, limit_type).pending
  /\ UNCHANGED pollVars
  /\ UNCHANGED <<pending_lock_states, cmd, ncmd, last_set>>
  /\ UNCHANGED decVars

\* async_turn_on / async_turn_off of a time-limit switch, up to the await of
\* the client's enable / disable command
ToggleStart(c, limit_type, enabled) ==
  /\ cmd.kind = "none"
  /\ ncmd < MaxCommands
  /\ c \in SnapshotChildren
  /\ pending_time_limit_states' =
       SetPendingTimeLimitState(pending_time_limit_states, c, limit_type, enabled)
  /\ last_set' = [last_set EXCEPT ![<<c, limit_type>>] =
                    [enabled |-> enabled, age |-> 0, result |-> "in_flight"]]
  /\ cmd' = [kind |-> "toggle", child_id |-> c, limit_type |-> limit_type,
             enabled |-> enabled]
  /\ ncmd' = ncmd + 1
  /\ UNCHANGED pollVars
  /\ UNCHANGED pending_lock_states
  /\ UNCHANGED decVars

\* how the client's enable / disable command ends: it returns True, returns
\* False, or raises
ToggleOutcomes == {"true", "false", "raised"}

\* variant of ToggleFinish that takes the pending entry back when the command
\* failed
ToggleFinish_RollsBack ==
  /\ cmd.kind = "toggle"
  /\ cmd' = [kind |-> "none"]
  /\ \E outcome \in ToggleOutcomes :
       /\ last_set' = [last_set EXCEPT ![<<cmd.child_id, cmd.limit_type>>].result = outcome]
       /\ pending_time_limit_states' =
            IF outcome = "true" THEN pending_time_limit_states
            ELSE [pending_time_limit_states EXCEPT
                    ![cmd.child_id] = DelKey(pending_time_limit_states[cmd.child_id],
                                             cmd.limit_type)]
  /\ UNCHANGED pollVars
  /\ UNCHANGED <<pending_lock_states, ncmd>>
  /\ UNCHANGED decVars

\* the client's command returns or raises; either way the handler only logs
\* and, on success, requests a refresh
ToggleFinish ==
  /\ cmd.kind = "toggle"
  /\ cmd' = [kind |-> "none"]
  /\ \E outcome \in ToggleOutcomes :
       last_set' = [last_set EXCEPT ![<<cmd.child_id, cmd.limit_type>>].result = outcome]
  /\ UNCHANGED pollVars
  /\ UNCHANGED <<pending_lock_states, ncmd, pending_time_limit_states>>
  /\ UNCHANGED decVars

Init ==
  /\ resp = Null
  /\ wall = PollClock
  /\ decoded = [kind |-> "none"]
  /\ InitClient
  /\ InitCoordinator

\* poll cycles against a backend in which any one call may fail
Next ==
  \/ UpdateStart
  \/ AsyncUpdateData(Backends)

Spec == Init /\ [][Next]_vars

\* backends whose calls all succeed
SteadyBackends == {be \in Backends : DOMAIN be.fails = {}}

LockTargets == {<<"c1", D1>>, <<"c1", D2>>}

\* user commands and state reads interleaved with poll cycles
NextCommands ==
  \/ UpdateStart
  \/ AsyncUpdateData(SteadyBackends)
  \/ Tick
  \/ \E x \in LockTargets, action \in {DEVICE_LOCK_ACTION, DEVICE_UNLOCK_ACTION} :
       ControlDeviceStart(x[1], x[2], action)
  \/ ControlDeviceFinish
  \/ \E c \in ChildIds, k \in LimitTypes, enabled \in BOOLEAN : ToggleStart(c, k, enabled)
  \/ ToggleFinish
  \/ \E c \in ChildIds, k \in LimitTypes : ReadIsOn(c, k)

SpecCommands == Init /\ [][NextCommands]_vars

\* an invocation of _async_update_data ends: the step of AsyncUpdateData, told
\* by the position of the poll cycle alone
UpdateEnds == pc = "fetching" /\ pc' = "idle"

\* poll cycles keep running and time keeps passing: the host's scheduler
\* invokes _async_update_data again and again, every invocation ends, and the
\* clock advances
SpecCommandsFair ==
  /\ SpecCommands
  /\ WF_vars(UpdateStart)
  /\ WF_pc(UpdateEnds)
  /\ WF_vars(Tick)

InitDecode ==
  /\ resp \in Responses
  /\ wall \in Walls
  /\ decoded = [kind |-> "none"]
  /\ InitClient
  /\ InitCoordinator

\* the client decodes the body it received
ParseAppliedTimeLimits ==
  /\ decoded.kind = "none"
  /\ decoded' = DecodeAppliedTimeLimits(resp, wall)
  /\ UNCHANGED <<resp, wall>>
  /\ UNCHANGED clientVars
  /\ UNCHANGED coordVars

NextDecode == ParseAppliedTimeLimits

SpecDecode == InitDecode /\ [][NextDecode]_vars

\* the client alone: authentication, re-authentication and calls in any order
InitClientCalls ==
  /\ resp = Null
  /\ wall = PollClock
  /\ decoded = [kind |-> "none"]
  /\ InitClient
  /\ InitCoordinator

NextClient ==
  \/ \E ok \in BOOLEAN : Authenticate(ok)
  \/ \E suspends \in BOOLEAN : RefreshSessionStart(suspends)
  \/ RefreshSessionClosed
  \/ \E ok \in BOOLEAN : RefreshSessionEnds(ok)
  \/ \E ep \in (ReadEndpoints \cup CommandEndpoints) \ ToggleEndpoints :
       \E answer \in Answers : ClientCall(ep, answer)
  \/ \E ep \in ToggleEndpoints : ToggleLookupStart(ep)
  \/ \E lookup \in LookupAnswers, answer \in Answers :
       ToggleLookupEnds(lookup, answer)

SpecClient == InitClientCalls /\ [][NextClient]_vars

(***************************************************************************)
(* timeLimit decoder (FamilyLinkClient.async_get_time_limit) on an         *)
(* HTTP-200 body                                                           *)
(***************************************************************************)

\* the value returned for a body that is not a list of two elements or more
DefaultTimeLimit ==
  [kind |-> "ok", bedtime_enabled |-> FALSE, school_time_enabled |-> FALSE,
   bedtime_schedule |-> <<>>, school_time_schedule |-> <<>>,
   bedtime_rule_id |-> Null, schooltime_rule_id |-> Null]

\* the schedule entry made of item, when item is a list of 4 elements or
\* more whose tag starts with prefix and whose day, start and end are truthy
ScheduleOf(item, prefix) ==
  IF IsList(item) /\ JLen(item) >= 4 /\ IsStr(At(item, 0))
     /\ StartsWith(At(item, 0).s, prefix)
     /\ Truthy(At(item, 1)) /\ Truthy(At(item, 2)) /\ Truthy(At(item, 3))
  THEN <<[day |-> At(item, 1), start |-> At(item, 2), end |-> At(item, 3)]>>
  ELSE <<>>

RECURSIVE CollectSchedule(_, _, _)
\* "for item in ...: ... append": the schedule entries of items from k on
CollectSchedule(items, k, prefix) ==
  IF k > Len(items) THEN <<>>
  ELSE ScheduleOf(items[k], prefix) \o CollectSchedule(items, k + 1, prefix)

RECURSIVE CollectScheduleLists(_, _)
\* "for schedule_list in schedule_data[1]"
CollectScheduleLists(lists, k) ==
  IF k > Len(lists) THEN <<>>
  ELSE (IF IsList(lists[k]) THEN CollectSchedule(lists[k].l, 1, CAEQ) ELSE <<>>)
         \o CollectScheduleLists(lists, k + 1)

\* bedtime schedules: data[0][0][1]
BedtimeSchedule(tl) ==
  IF IsList(tl) /\ JLen(tl) > 0 /\ IsList(At(tl, 0))
     /\ JLen(At(tl, 0)) > 0 /\ IsList(At(At(tl, 0), 0))
     /\ JLen(At(At(tl, 0), 0)) > 1 /\ IsList(At(At(At(tl, 0), 0), 1))
  THEN CollectScheduleLists(At(At(At(tl, 0), 0), 1).l, 1)
  ELSE <<>>

\* school-time schedules: data[1][0][2]
SchoolTimeSchedule(tl) ==
  IF IsList(tl) /\ JLen(tl) > 1 /\ IsList(At(tl, 1))
     /\ JLen(At(tl, 1)) > 0 /\ IsList(At(At(tl, 1), 0))
     /\ JLen(At(At(tl, 1), 0)) > 2 /\ IsList(At(At(At(tl, 1), 0), 2))
  THEN CollectSchedule(At(At(At(tl, 1), 0), 2).l, 1, CAMQ)
  ELSE <<>>

\* exactly 4 elements, the last one a list
IsRevisionCandidate(item) ==
  IsList(item) /\ JLen(item) = 4 /\ IsList(At(item, 3))

\* a rule id longer than 30 characters, type_flag and state_flag in {1, 2}
IsValidRevision(item) ==
  /\ IsStr(At(item, 0)) /\ Len(At(item, 0).s) > 30
  /\ IsInt(At(item, 1)) /\ At(item, 1).i \in {1, 2}
  /\ IsInt(At(item, 2)) /\ At(item, 2).i \in {1, 2}

ValidRevisions(element) ==
  SelectSeq(element.l,
            LAMBDA item : IsRevisionCandidate(item) /\ IsValidRevision(item))

\* the flags and rule ids with every schedule taken for enabled at the start
NoRevisions_EnabledByDefault ==
  [bedtime_enabled |-> TRUE, school_time_enabled |-> TRUE,
   bedtime_rule_id |-> Null, schooltime_rule_id |-> Null]

\* the flags and rule ids before any revision is read
NoRevisions ==
  [bedtime_enabled |-> FALSE, school_time_enabled |-> FALSE,
   bedtime_rule_id |-> Null, schooltime_rule_id |-> Null]

RECURSIVE ApplyRevisions_ResetsOtherType(_, _, _)
\* ApplyRevisions with each revision deciding both rules: the rule of the other
\* type is reset
ApplyRevisions_ResetsOtherType(revs, k, acc) ==
  IF k > Len(revs) THEN acc
  ELSE IF At(revs[k], 1).i = 1
  THEN ApplyRevisions_ResetsOtherType(revs, k + 1,
         [bedtime_enabled |-> (At(revs[k], 2).i = 2), bedtime_rule_id |-> At(revs[k], 0),
          school_time_enabled |-> FALSE, schooltime_rule_id |-> Null])
  ELSE ApplyRevisions_ResetsOtherType(revs, k + 1,
         [school_time_enabled |-> (At(revs[k], 2).i = 2), schooltime_rule_id |-> At(revs[k], 0),
          bedtime_enabled |-> FALSE, bedtime_rule_id |-> Null])

RECURSIVE ApplyRevisions(_, _, _)
\* "for revision in valid_revisions"
ApplyRevisions(revs, k, acc) ==
  IF k > Len(revs) THEN acc
  ELSE ApplyRevisions(revs, k + 1,
         IF At(revs[k], 1).i = 1
         THEN [acc EXCEPT !.bedtime_enabled = (At(revs[k], 2).i = 2),
                          !.bedtime_rule_id = At(revs[k], 0)]
         ELSE [acc EXCEPT !.school_time_enabled = (At(revs[k], 2).i = 2),
                          !.schooltime_rule_id = At(revs[k], 0)])

RECURSIVE FindRevisions(_, _)
\* the search from the last element of data backwards for the first list
\* holding valid revisions
FindRevisions(tl, idx) ==
  IF idx < 0 THEN NoRevisions
  ELSE IF IsList(At(tl, idx)) /\ Len(ValidRevisions(At(tl, idx))) > 0
  THEN ApplyRevisions(ValidRevisions(At(tl, idx)), 1, NoRevisions)
  ELSE FindRevisions(tl, idx - 1)

Revisions(tl) ==
  IF IsList(tl) /\ JLen(tl) > 0 THEN FindRevisions(tl, JLen(tl) - 1)
  ELSE NoRevisions

\* the decoding of the unwrapped data
DecodeTimeLimitData(tl, revs) ==
  [kind |-> "ok",
   bedtime_enabled |-> revs.bedtime_enabled,
   school_time_enabled |-> revs.school_time_enabled,
   bedtime_schedule |-> BedtimeSchedule(tl),
   school_time_schedule |-> SchoolTimeSchedule(tl),
   bedtime_rule_id |-> revs.bedtime_rule_id,
   schooltime_rule_id |-> revs.schooltime_rule_id]

\* async_get_time_limit on an HTTP-200 body
DecodeTimeLimit(body) ==
  IF ~IsList(body) \/ JLen(body) < 2 THEN DefaultTimeLimit
  ELSE DecodeTimeLimitData(At(body, 1), Revisions(At(body, 1)))

(***************************************************************************)
(* Bounded inputs of the timeLimit decoder                                 *)
(***************************************************************************)

\* a rule id as long as a UUID
Uuid(c) == JStr([k \in 1..36 |-> c])

RuleB == Uuid("b")

RuleS == Uuid("s")

ShortId == JStr(<<"r", "1">>)

\* the timestamp string of the test fixtures
Stamp == JStr(<<"1", "6", "9", "9">>)

\* [timestamp, nanos]
StampPair == JList(<<Stamp, JInt(0)>>)

HourMinute(h, m) == JList(<<JInt(h), JInt(m)>>)

\* the schedule entry of the test fixtures
FixtureSchedule(tag) ==
  JList(<<tag, JInt(1), HourMinute(20, 0), HourMinute(7, 0), Null>>)

Revision(id, type_flag, state_flag, stamp) ==
  JList(<<id, JInt(type_flag), state_flag, stamp>>)

\* the response of the test fixtures: two schedule entries, two revisions
FixtureTimeLimit(s1, s2) ==
  JList(<<FixtureSchedule(CAEQBg), FixtureSchedule(CAMQBg),
          Revision(RuleB, 1, s1, Stamp), Revision(RuleS, 2, s2, Stamp)>>)

\* the response of test_missing_state_flags
MissingStateFlags == JList(<<Revision(RuleB, 1, Null, Stamp)>>)

\* a schedule item as the backend sends it
ScheduleItem(tag, day) ==
  JList(<<tag, JInt(day), HourMinute(20, 0), HourMinute(7, 0), Stamp, Stamp, Null>>)

BedtimeConfigs ==
  {Null, JList(<<>>),
   JList(<<JList(<<JInt(2),
                   JList(<<JList(<<ScheduleItem(CAEQBg, 1), ScheduleItem(CAEQBg, 2)>>)>>),
                   Stamp, Stamp, JInt(1)>>)>>)}

SchoolTimeConfigs ==
  {Null,
   JList(<<JList(<<JInt(2), HourMinute(6, 0),
                   JList(<<ScheduleItem(CAMQBg, 1), ScheduleItem(CAEQBg, 2)>>),
                   Stamp, Stamp>>)>>)}

StateFlags == {Null, JInt(1), JInt(2), JInt(3)}

RevisionLists ==
  {Null, JList(<<>>)}
    \cup {JList(<<Revision(RuleB, 1, s1, StampPair), Revision(RuleS, 2, s2, StampPair)>>) :
            s1 \in StateFlags, s2 \in StateFlags}
    \cup {JList(<<Revision(RuleS, 2, s2, StampPair), Revision(RuleB, 1, s1, StampPair)>>) :
            s1 \in StateFlags, s2 \in StateFlags}
    \cup {JList(<<Revision(RuleS, 2, s2, StampPair)>>) : s2 \in StateFlags}
    \cup {JList(<<Revision(ShortId, 1, JInt(2), StampPair)>>),
          JList(<<Revision(RuleB, 1, JInt(2), Stamp)>>),
          JList(<<Revision(RuleB, 1, JInt(2), StampPair), Revision(RuleB, 1, JInt(1), StampPair)>>)}

\* [[metadata], [bedtime_config, daily_limit_config, history, None, [1], revisions]]
WrappedTimeLimit(bed, school, revs) ==
  JList(<<JList(<<>>), JList(<<bed, school, Null, Null, JList(<<JInt(1)>>), revs>>)>>)

TimeLimitResponses ==
  {WrappedTimeLimit(bed, school, revs) :
     bed \in BedtimeConfigs, school \in SchoolTimeConfigs, revs \in RevisionLists}
    \cup {FixtureTimeLimit(s1, s2) : s1 \in {JInt(1), JInt(2)}, s2 \in {JInt(1), JInt(2)}}
    \cup {MissingStateFlags, JList(<<>>), Null, JList(<<Null, Null>>),
          JList(<<Null, JStr(<<"x">>)>>)}

\* the client decodes the timeLimit body it received
InitTimeLimit ==
  /\ resp \in TimeLimitResponses
  /\ wall = PollClock
  /\ decoded = [kind |-> "none"]
  /\ InitClient
  /\ InitCoordinator

ParseTimeLimit ==
  /\ decoded.kind = "none"
  /\ decoded' = DecodeTimeLimit(resp)
  /\ UNCHANGED <<resp, wall>>
  /\ UNCHANGED clientVars
  /\ UNCHANGED coordVars

NextTimeLimit == ParseTimeLimit

SpecTimeLimit == InitTimeLimit /\ [][NextTimeLimit]_vars

\* the records returned by the decoder in the current state
Records == IF decoded.kind = "ok" THEN decoded.devices ELSE <<>>

(***************************************************************************)
(* Claims about the poll cycle (checked under Spec)                        *)
(***************************************************************************)

\* a poll cycle has ended, by a return or by UpdateFailed
CycleCompleted == cycle.outcome \in {"returned", "update_failed"}

\* C1: when a backend call of the fetch answered HTTP 401, the same invocation
\* of _async_update_data performed one re-authentication and one retry of the
\* whole fetch.
C1_ExpiredSessionReauthAndRetry ==
  (CycleCompleted /\ cycle.expired) => (cycle.reauths = 1 /\ cycle.fetches = 2)

\* C8: a poll cycle that did not obtain the family from the backend leaves the
\* previously fetched snapshot in place and sets the availability flag to false.
C8_FailedCycleKeepsSnapshot ==
  [][(pc = "fetching" /\ pc' = "idle" /\ data # NoData /\ cycle'.members # "ok")
       => (data' = data /\ last_update_success' = FALSE)]_vars

\* the part of child_data that sub-fetch f fills is at its default
PartAtDefault(cd, f, how) ==
  IF f = "apps" THEN cd.apps = JList(<<>>) /\ cd.devices = <<>>
  ELSE IF f = "time_limit"
       THEN IF how = "http500"
            THEN cd.bedtime_enabled = JBool(FALSE) /\ cd.school_time_enabled = JBool(FALSE)
            ELSE cd.bedtime_enabled = Null /\ cd.school_time_enabled = Null
  ELSE IF f = "applied"
       THEN /\ cd.devices_time_data = EmptyDict
            /\ \A j \in 1..Len(cd.devices) : cd.devices[j].locked = FALSE
  ELSE cd.screen_time = Null

\* the child ids of the published snapshot, in order
PublishedChildren == [k \in 1..Len(data.children_data) |-> data.children_data[k].child_id]

\* C9: a cycle in which a per-child sub-fetch failed still completes by
\* returning, and its snapshot holds a record for every supervised child, the
\* failed part of the record being at its empty / None default.
C9_SubFetchFailureIsPartial ==
  (CycleCompleted /\ cycle.members = "ok") =>
    /\ cycle.outcome = "returned"
    /\ PublishedChildren = SelectSeq(Members, IsSupervisedMember)
    /\ \A call \in DOMAIN cycle.failed :
         PartAtDefault(ChildData(call[1]), call[2], cycle.failed[call])

\* a returned cycle with one failed sub-fetch and the records of both children
C9_Witness ==
  /\ cycle.outcome = "returned"
  /\ cycle.members = "ok"
  /\ DOMAIN cycle.failed # {}
  /\ Len(data.children_data) = 2
  /\ \E call \in DOMAIN cycle.failed :
       /\ call[1] = "c1"
       /\ PartAtDefault(ChildData("c1"), call[2], cycle.failed[call])
       /\ ChildData("c2").devices # <<>>

\* C10: a cycle whose family-members call raised NetworkError or an
\* authentication error ends with UpdateFailed.
C10_MembersErrorFailsCycle ==
  (CycleCompleted /\ cycle.members \in {"neterr", "http500", "autherr"})
    => cycle.outcome = "update_failed"

C29_OnlySnapshotOrUpdateFailed ==
  /\ cycle.outcome \in {"none", "running", "returned", "update_failed"}
  /\ pc = "idle" => cycle.outcome # "running"
  /\ cycle.outcome = "returned" => (data # NoData /\ last_update_success)
  /\ cycle.outcome = "update_failed" => ~last_update_success

\* the client constructor raised in _async_setup_client (no client was left
\* behind) and the cycle ended with UpdateFailed
C29_Witness ==
  /\ pc = "idle"
  /\ cycle.outcome = "update_failed"
  /\ cycle.members = "not_called"
  /\ client = "none"

(***************************************************************************)
(* Claims about the pending overlays (checked under SpecCommands)          *)
(***************************************************************************)

\* the pending map has no entry for (c, k)
NoPendingEntry(p, c, k) == c \notin DOMAIN p \/ k \notin DOMAIN p[c]

\* C2: get_pending_time_limit_state(child, kind), called less than 5 s after
\* set_pending_time_limit_state(child, kind, v), returns v; called at age 5 s
\* or more it returns None and leaves no entry for (child, kind) in the map.
C2_PendingTimeLimitWindow ==
  \A c \in ChildIds, k \in LimitTypes :
    last_set[<<c, k>>] # NoSet =>
      LET g == GetPendingTimeLimitState(pending_time_limit_states, c, k) IN
      IF last_set[<<c, k>>].age < TimeLimitTTL
      THEN g.ret = JBool(last_set[<<c, k>>].enabled)
      ELSE g.ret = Null /\ NoPendingEntry(g.pending, c, k)

\* an entry was set, five seconds passed, and a read has removed it
C2_Witness ==
  \E c \in ChildIds, k \in LimitTypes :
    /\ last_set[<<c, k>>] # NoSet
    /\ last_set[<<c, k>>].age = TimeLimitTTL
    /\ c \in DOMAIN pending_time_limit_states
    /\ k \notin DOMAIN pending_time_limit_states[c]

\* the pending lock entry of device d is younger than the TTL
PendingLockValid(d) ==
  d \in DOMAIN pending_lock_states /\ pending_lock_states[d].age < LockTTL

\* C3: in the merge of a poll cycle, a device with a pending lock entry younger
\* than 5 s is published with the pending value whatever the backend reported;
\* a device with no entry or an expired one is published with the decoded lock
\* state (false when none was reported), and an expired entry is deleted.
C3_PendingLockOverlay ==
  [][(pc = "fetching" /\ cycle'.outcome = "returned") =>
       \A x \in SnapshotDevices' :
         IF PendingLockValid(x[2])
         THEN /\ DeviceLocked(x[1], x[2])' = pending_lock_states[x[2]].locked
              /\ x[2] \in DOMAIN pending_lock_states'
         ELSE /\ DeviceLocked(x[1], x[2])' = Get(cycle'.lock_states[x[1]], x[2], FALSE)
              /\ x[2] \notin DOMAIN pending_lock_states']_vars

\* a cycle has published the commanded lock state of a device although the
\* backend reported the opposite
C3_Witness ==
  /\ cycle.outcome = "returned"
  /\ \E x \in SnapshotDevices :
       /\ PendingLockValid(x[2])
       /\ pending_lock_states[x[2]].locked # Get(cycle.lock_states[x[1]], x[2], FALSE)
       /\ DeviceLocked(x[1], x[2]) = pending_lock_states[x[2]].locked

\* the record of device j of child_data cd carries the time data decoded for
\* it in the same cycle
TimeDataCopied(cd, j) ==
  \A f \in DOMAIN TimeFields(cd.devices_time_data[cd.devices[j].id]) :
    /\ HasKey(cd.devices[j], f)
    /\ cd.devices[j][f] = TimeFields(cd.devices_time_data[cd.devices[j].id])[f]

\* some device of child_data cd has the daily limit enabled in the data
\* decoded from appliedTimeLimits
AnyDeviceLimitDecoded(cd) ==
  \E j \in 1..Len(cd.devices) :
    /\ cd.devices[j].id \in DOMAIN cd.devices_time_data
    /\ cd.devices_time_data[cd.devices[j].id].daily_limit_enabled

\* C26: in the published snapshot a child's daily_limit_enabled is true
\* exactly when one of its devices has daily_limit_enabled true in the data
\* decoded from appliedTimeLimits in the same cycle.
C26_ChildLimitIsAnyDeviceLimit ==
  \A c \in SnapshotChildren :
    ChildData(c).daily_limit_enabled <=> AnyDeviceLimitDecoded(ChildData(c))

\* C27: every device of the published snapshot for which the cycle decoded
\* time data carries that data on its record, whether or not a pending lock
\* entry existed for it in the merge.
C27_PendingLockLeavesTimeData ==
  \A c \in SnapshotChildren :
    \A j \in 1..Len(ChildData(c).devices) :
      ChildData(c).devices[j].id \in DOMAIN ChildData(c).devices_time_data =>
        TimeDataCopied(ChildData(c), j)

\* the enable / disable command of the last toggle of (c, k) failed: it
\* returned False or raised
ToggleFailed(c, k) ==
  last_set[<<c, k>>] # NoSet /\ last_set[<<c, k>>].result \in {"false", "raised"}

\* is_on of the switch as the published snapshot alone gives it
SnapshotIsOn(c, k) ==
  IF SnapshotEnabled(c, k) # Null THEN SnapshotEnabled(c, k).b ELSE FALSE

\* after a failed toggle is_on answers the commanded value while the entry is
\* younger than 5 s and the snapshot value afterwards
FailedToggleHoldsThenReverts ==
  \A c \in ChildIds, k \in LimitTypes :
    ToggleFailed(c, k) =>
      IF last_set[<<c, k>>].age < TimeLimitTTL
      THEN /\ ~NoPendingEntry(pending_time_limit_states, c, k)
           /\ IsOn(c, k) = last_set[<<c, k>>].enabled
      ELSE IsOn(c, k) = SnapshotIsOn(c, k)

\* C28: a step removes a pending time-limit entry only when the entry has
\* expired, the end of a toggle's command leaves the pending map as it is, and
\* after a failed command the switch answers the commanded value for the rest
\* of the 5-second window and the snapshot value afterwards.
C28_FailedToggleKeepsPendingEntry ==
  /\ []FailedToggleHoldsThenReverts
  /\ [][/\ \A c \in ChildIds, k \in LimitTypes :
             (~NoPendingEntry(pending_time_limit_states, c, k)
                /\ NoPendingEntry(pending_time_limit_states', c, k))
               => ~(pending_time_limit_states[c][k].age < TimeLimitTTL)
        /\ (cmd.kind = "toggle" /\ cmd'.kind = "none")
             => pending_time_limit_states' = pending_time_limit_states]_vars

\* the command of a toggle has failed, its entry is in the last second of its
\* window, and is_on still answers the commanded value, which is not the value
\* of the published snapshot
C28_Witness ==
  \E c \in ChildIds, k \in LimitTypes :
    /\ ToggleFailed(c, k)
    /\ cmd.kind = "none"
    /\ last_set[<<c, k>>].age = TimeLimitTTL - 1
    /\ IsOn(c, k) = last_set[<<c, k>>].enabled
    /\ SnapshotIsOn(c, k) # last_set[<<c, k>>].enabled

\* C30: every pending lock-state entry is eventually removed, whatever the
\* later poll cycles fetch.
C30_PendingLockEventuallyRemoved ==
  \A x \in LockTargets :
    (x[2] \in DOMAIN pending_lock_states) ~> (x[2] \notin DOMAIN pending_lock_states)

\* the pending lock entry of a device that every apps/usage answer lists is
\* eventually removed
PendingLockRemovedWhileListed ==
  (D2 \in DOMAIN pending_lock_states) ~> (D2 \notin DOMAIN pending_lock_states)

\* the lock state a device command asks for
CommandedLocked == cmd.action = DEVICE_LOCK_ACTION

\* while a toggle is in flight, and within the TTL of its pending entry, is_on
\* of the switch answers the commanded value
ToggleVisibleInFlight ==
  (cmd.kind = "toggle" /\ last_set[<<cmd.child_id, cmd.limit_type>>].age < TimeLimitTTL)
    => IsOn(cmd.child_id, cmd.limit_type) = cmd.enabled

C5_BonusReplacesQuota ==
  \A d \in DOMAIN Records :
    Records[d].bonus_minutes > 0 =>
      Records[d].remaining_minutes = Records[d].bonus_minutes

\* C6: every decoded device record with bonus_minutes = 0 and
\* daily_limit_enabled has remaining_minutes = max(0, daily_limit_minutes -
\* used_minutes).
C6_RemainingIsLimitMinusUsed ==
  \A d \in DOMAIN Records :
    (Records[d].bonus_minutes = 0 /\ Records[d].daily_limit_enabled) =>
      Records[d].remaining_minutes =
        Max(0, Records[d].daily_limit_minutes - Records[d].used_minutes)

C6_Witness ==
  \E d \in DOMAIN Records :
    /\ Records[d].bonus_minutes = 0
    /\ Records[d].daily_limit_enabled
    /\ Records[d].used_minutes > Records[d].daily_limit_minutes
    /\ Records[d].daily_limit_minutes > 0
    /\ Records[d].remaining_minutes = 0

RespEntries ==
  IF IsList(resp) /\ JLen(resp) > 1 /\ IsList(At(resp, 1)) THEN At(resp, 1).l ELSE <<>>

\* the device an entry is about: its last element
EntryDevice(e) == e.l[Len(e.l)]

\* C13: decoding an HTTP-200 body never ends in an exception.
C13_DecodingNeverRaises == decoded.kind # "raise"

\* entry[0] is a non-null array whose action code entry[0][2] is 1
LockExpected(e) ==
  IsList(At(e, 0)) /\ JLen(At(e, 0)) > 2 /\ At(At(e, 0), 2) = JInt(1)

C17_FixtureEntryDecoded ==
  (decoded.kind # "none" /\ wall.day = 1
     /\ resp = JList(<<Null, JList(<<FixtureEntry(2)>>)>>)) =>
    /\ decoded.kind = "ok"
    /\ D1 \in DOMAIN Records
    /\ Records[D1].daily_limit_enabled
    /\ Records[D1].daily_limit_minutes = 120
    /\ Records[D1].total_allowed_minutes = 120
    /\ Records[D1].used_minutes = 60
    /\ Records[D1].remaining_minutes = 60

\* item is a daily-limit tuple ["CAEQBg", day, state_flag, minutes, ...]
IsDailyLimitTuple(item) ==
  IsList(item) /\ JLen(item) \in {5, 6} /\ At(item, 0) = CAEQBg

\* the daily-limit tuples of entry e for today all carry state_flag 1 and n
\* minutes, and there is one
DisabledToday(e, n) ==
  /\ \E idx \in 0..(JLen(e) - 1) :
       IsDailyLimitTuple(At(e, idx)) /\ At(At(e, idx), 1) = JInt(wall.day)
  /\ \A idx \in 0..(JLen(e) - 1) :
       (IsDailyLimitTuple(At(e, idx)) /\ At(At(e, idx), 1) = JInt(wall.day)) =>
         (At(At(e, idx), 2) = JInt(1) /\ At(At(e, idx), 3) = JInt(n))

\* C18: an entry whose daily-limit tuple for today carries state_flag 1 and
\* n minutes gives a record with daily_limit_enabled false and
\* daily_limit_minutes n.
C18_DisabledLimitKeepsMinutes ==
  decoded.kind = "ok" =>
    \A k \in 1..Len(RespEntries) : \A n \in {60 * h : h \in 0..MaxLimitHours} :
      (IsList(RespEntries[k]) /\ DisabledToday(RespEntries[k], n)) =>
        /\ EntryDevice(RespEntries[k]) \in DOMAIN Records
        /\ ~Records[EntryDevice(RespEntries[k])].daily_limit_enabled
        /\ Records[EntryDevice(RespEntries[k])].daily_limit_minutes = n

\* entry e holds at index idx a 6-element CAEQ tuple of integers for today
TodayLimitTupleAt(e, idx) ==
  /\ IsList(At(e, idx)) /\ JLen(At(e, idx)) = 6
  /\ IsStr(At(At(e, idx), 0)) /\ StartsWith(At(At(e, idx), 0).s, CAEQ)
  /\ IsInt(At(At(e, idx), 1)) /\ IsInt(At(At(e, idx), 2)) /\ IsInt(At(At(e, idx), 3))
  /\ At(At(e, idx), 1).i = wall.day

\* entry e holds, at an index below 10, a daily-limit tuple for today with
\* state_flag 2
ActiveLimitToday(e) ==
  \E idx \in 0..(JLen(e) - 1) :
    idx < 10 /\ TodayLimitTupleAt(e, idx) /\ At(At(e, idx), 2).i = 2

\* C24: for every decoded device entry daily_limit_enabled is true exactly
\* when the entry holds a 6-element CAEQ tuple for today at an index below 10
\* with state_flag 2, whatever further tuples for today follow it in the entry.
C24_EnabledIffActiveTupleToday ==
  decoded.kind = "ok" =>
    \A k \in 1..Len(RespEntries) :
      (IsList(RespEntries[k]) /\ JLen(RespEntries[k]) > 0
         /\ EntryDevice(RespEntries[k]) \in DOMAIN Records) =>
        (Records[EntryDevice(RespEntries[k])].daily_limit_enabled
           <=> ActiveLimitToday(RespEntries[k]))

\* the indices of entry e holding a list of n elements whose first item is a
\* string with prefix "CAEQ"
CaeqIndices(e, n) ==
  {idx \in 0..(JLen(e) - 1) :
     /\ IsList(At(e, idx)) /\ JLen(At(e, idx)) = n
     /\ IsStr(At(At(e, idx), 0)) /\ StartsWith(At(At(e, idx), 0).s, CAEQ)}

\* the 6-element CAEQ tuples of e that carry integers for today
TodayLimitIndices(e) == {idx \in CaeqIndices(e, 6) : TodayLimitTupleAt(e, idx)}

\* the 8-element CAEQ tuples of e that carry a window for today with
\* state_flag 2
TodayWindowIndices(e) ==
  {idx \in CaeqIndices(e, 8) :
     WindowGate(At(e, idx), wall) /\ WindowTimesValid(At(e, idx))}

\* the largest index of a non-empty set of indices
LastIndex(S) == CHOOSE idx \in S : \A j \in S : j <= idx

\* C25: the daily-limit fields of a record are written by the 6-element CAEQ
\* tuples of its entry and by nothing else, and the bedtime-window fields by
\* the 8-element CAEQ tuples and by nothing else: without a 6-element tuple
\* for today the daily-limit fields keep their defaults (with one,
\* daily_limit_minutes is that of the last), and without an 8-element window
\* for today the bedtime fields keep theirs (with one, bedtime_window is that
\* of the last), whatever CAEQ elements of other lengths the entry holds.
C25_ElementCountSelectsBranch ==
  decoded.kind = "ok" =>
    \A k \in 1..Len(RespEntries) :
      (IsList(RespEntries[k]) /\ JLen(RespEntries[k]) > 0
         /\ EntryDevice(RespEntries[k]) \in DOMAIN Records) =>
        /\ IF TodayLimitIndices(RespEntries[k]) = {}
           THEN /\ ~Records[EntryDevice(RespEntries[k])].daily_limit_enabled
                /\ Records[EntryDevice(RespEntries[k])].daily_limit_minutes = 0
           ELSE Records[EntryDevice(RespEntries[k])].daily_limit_minutes
                  = At(At(RespEntries[k], LastIndex(TodayLimitIndices(RespEntries[k]))), 3).i
        /\ IF TodayWindowIndices(RespEntries[k]) = {}
           THEN /\ Records[EntryDevice(RespEntries[k])].bedtime_window = NoWindow
                /\ ~Records[EntryDevice(RespEntries[k])].bedtime_active
           ELSE Records[EntryDevice(RespEntries[k])].bedtime_window
                  = WindowOf(At(RespEntries[k], LastIndex(TodayWindowIndices(RespEntries[k]))))

\* an entry whose only CAEQ element has 7 elements (and would enable a
\* 120-minute limit for today if read as a daily-limit tuple) is decoded with
\* all daily-limit and bedtime fields at their defaults
C25_Witness ==
  /\ decoded.kind = "ok"
  /\ wall.day = 1
  /\ Len(RespEntries) = 1
  /\ At(RespEntries[1], 3) = LongDailyTuple(1, 2, 120)
  /\ CaeqIndices(RespEntries[1], 6) = {}
  /\ CaeqIndices(RespEntries[1], 8) = {}
  /\ D1 \in DOMAIN Records
  /\ ~Records[D1].daily_limit_enabled
  /\ Records[D1].daily_limit_minutes = 0
  /\ Records[D1].bedtime_window = NoWindow

\* entry[0] is an override of type 10 whose entry[0][13][0][0] is a string of
\* digits
HasBonusOverride(e) ==
  /\ IsList(e) /\ JLen(e) > 0 /\ IsList(At(e, 0)) /\ JLen(At(e, 0)) > 13
  /\ At(At(e, 0), 2) = JInt(10)
  /\ IsList(At(At(e, 0), 13)) /\ JLen(At(At(e, 0), 13)) > 0
  /\ IsList(At(At(At(e, 0), 13), 0)) /\ JLen(At(At(At(e, 0), 13), 0)) > 0
  /\ IsStr(At(At(At(At(e, 0), 13), 0), 0))
  /\ StrIsDigit(At(At(At(At(e, 0), 13), 0), 0).s)

BonusSeconds(e) == StrToInt(At(At(At(At(e, 0), 13), 0), 0).s)

\* C19: an entry with a bonus override is reported with bonus_override_id =
\* entry[0][0] and bonus_minutes = int(s) // 60; the override
\* async_add_time_bonus builds for m minutes on device d decodes to device d,
\* not locked, bonus_minutes = m.
C19_BonusOverrideDecoded ==
  decoded.kind = "ok" =>
    \A k \in 1..Len(RespEntries) :
      HasBonusOverride(RespEntries[k]) =>
        /\ At(At(RespEntries[k], 0), 3) \in DOMAIN Records
        /\ Records[At(At(RespEntries[k], 0), 3)].bonus_override_id
             = At(At(RespEntries[k], 0), 0)
        /\ Records[At(At(RespEntries[k], 0), 3)].bonus_minutes
             = BonusSeconds(RespEntries[k]) \div 60
        /\ \A m \in 1..MaxBonusMinutes :
             At(RespEntries[k], 0) = BonusOverride(Null, D1, 60 * m) =>
               /\ Records[D1].bonus_minutes = m
               /\ decoded.device_lock_states[D1] = FALSE

C19_Witness ==
  /\ decoded.kind = "ok"
  /\ Len(RespEntries) = 1
  /\ At(RespEntries[1], 0) = BonusOverride(Null, D1, 60 * MaxBonusMinutes)
  /\ Records[D1].bonus_minutes = MaxBonusMinutes
  /\ Records[D1].bonus_override_id = Null
  /\ decoded.device_lock_states[D1] = FALSE

(***************************************************************************)
(* Claims about the timeLimit decoder (checked under SpecTimeLimit)        *)
(***************************************************************************)

\* C15: for the response of the test fixtures with state flags s1 (bedtime
\* revision) and s2 (school-time revision), bedtime_enabled is (s1 = 2) and
\* school_time_enabled is (s2 = 2).
C15_FixtureFlagsDecoded ==
  \A s1 \in {1, 2}, s2 \in {1, 2} :
    (decoded.kind # "none" /\ resp = FixtureTimeLimit(JInt(s1), JInt(s2))) =>
      /\ decoded.kind = "ok"
      /\ decoded.bedtime_enabled = (s1 = 2)
      /\ decoded.school_time_enabled = (s2 = 2)

\* item carries a state_flag of 1 or 2 at index 2
HasStateFlag(item) ==
  IsList(item) /\ JLen(item) >= 3 /\ At(item, 2) \in {JInt(1), JInt(2)}

\* the body holds no revision set: it is not a list of two elements or more,
\* or no list of its data holds an entry with a state_flag
NoRevisionSet(body) ==
  \/ ~IsList(body)
  \/ JLen(body) < 2
  \/ ~IsList(At(body, 1))
  \/ \A idx \in 0..(JLen(At(body, 1)) - 1) :
       IsList(At(At(body, 1), idx)) =>
         \A k \in 1..JLen(At(At(body, 1), idx)) :
           ~HasStateFlag(At(At(body, 1), idx).l[k])

\* C16: a response without a valid revision set is decoded without raising
\* to bedtime_enabled = false and school_time_enabled = false; for the empty
\* response both schedules are empty.
C16_NoRevisionsMeansDisabled ==
  (decoded.kind # "none" /\ NoRevisionSet(resp)) =>
    /\ decoded.kind = "ok"
    /\ ~decoded.bedtime_enabled
    /\ ~decoded.school_time_enabled
    /\ (resp = JList(<<>>) =>
          decoded.bedtime_schedule = <<>> /\ decoded.school_time_schedule = <<>>)

C16_Witness ==
  /\ decoded.kind = "ok"
  /\ IsList(resp) /\ JLen(resp) = 2 /\ IsList(At(resp, 1))
  /\ At(At(resp, 1), 5) = JList(<<Revision(RuleB, 1, Null, StampPair),
                                  Revision(RuleS, 2, Null, StampPair)>>)
  /\ Len(decoded.bedtime_schedule) = 2
  /\ ~decoded.bedtime_enabled
  /\ ~decoded.school_time_enabled

RECURSIVE SelectedAt(_, _)
\* the valid revisions of the list the decoder selects in tl, <<>> if it
\* selects none
SelectedAt(tl, idx) ==
  IF idx < 0 THEN <<>>
  ELSE IF IsList(At(tl, idx)) /\ Len(ValidRevisions(At(tl, idx))) > 0
  THEN ValidRevisions(At(tl, idx))
  ELSE SelectedAt(tl, idx - 1)

\* the selected revision set of a timeLimit body
SelectedRevisions(body) ==
  IF IsList(body) /\ JLen(body) >= 2 /\ IsList(At(body, 1)) /\ JLen(At(body, 1)) > 0
  THEN SelectedAt(At(body, 1), JLen(At(body, 1)) - 1)
  ELSE <<>>

\* one bedtime revision (type_flag 1) and one school-time revision (type_flag 2)
OneRevisionOfEachType(revs) ==
  /\ Len(revs) = 2
  /\ {At(revs[1], 1).i, At(revs[2], 1).i} = {1, 2}

\* the revision of type_flag t among revs
RevisionOfType(revs, t) ==
  IF At(revs[1], 1).i = t THEN revs[1] ELSE revs[2]

\* C23: when the selected revision set holds one bedtime revision and one
\* school-time revision, the two flags and the two rule ids are those of the
\* revision of their own type, and so are the same as for the set in the
\* other order.
C23_RevisionOrderIrrelevant ==
  (decoded.kind = "ok" /\ OneRevisionOfEachType(SelectedRevisions(resp))) =>
    /\ decoded.bedtime_enabled = (At(RevisionOfType(SelectedRevisions(resp), 1), 2).i = 2)
    /\ decoded.bedtime_rule_id = At(RevisionOfType(SelectedRevisions(resp), 1), 0)
    /\ decoded.school_time_enabled = (At(RevisionOfType(SelectedRevisions(resp), 2), 2).i = 2)
    /\ decoded.schooltime_rule_id = At(RevisionOfType(SelectedRevisions(resp), 2), 0)
    /\ ApplyRevisions(<<SelectedRevisions(resp)[2], SelectedRevisions(resp)[1]>>, 1, NoRevisions)
         = [bedtime_enabled |-> decoded.bedtime_enabled,
            school_time_enabled |-> decoded.school_time_enabled,
            bedtime_rule_id |-> decoded.bedtime_rule_id,
            schooltime_rule_id |-> decoded.schooltime_rule_id]

\* a decoded response whose revision set lists the school-time revision (on)
\* before the bedtime revision (off)
C23_Witness ==
  /\ decoded.kind = "ok"
  /\ SelectedRevisions(resp) = <<Revision(RuleS, 2, JInt(2), StampPair),
                                 Revision(RuleB, 1, JInt(1), StampPair)>>
  /\ decoded.school_time_enabled
  /\ ~decoded.bedtime_enabled
  /\ decoded.bedtime_rule_id = RuleB
  /\ decoded.schooltime_rule_id = RuleS

\* the timeLimit decoder never raises
TimeLimitDecodingNeverRaises == decoded.kind \in {"none", "ok"}

(***************************************************************************)
(* Claims about the client (checked under SpecClient)                      *)
(***************************************************************************)

\* C11: a call whose request the backend answered with HTTP 401 surfaces as
\* SessionExpiredError, whatever the endpoint.
C11_Http401IsSessionExpired ==
  reply.answer = "http401" => reply.result = "SessionExpiredError"

\* the last call was a mutating command that passed is_authenticated()
CommandCarriedOut ==
  reply.endpoint \in CommandEndpoints /\ reply.result # "AuthenticationError"

\* C12: a mutating command of an authenticated client returns true when its
\* request is answered 200, and returns false, raising nothing, when the
\* request or the rule-id lookup is answered with another status than 401 or
\* fails with an exception.
C12_CommandsReturnBooleans ==
  CommandCarriedOut =>
    /\ reply.answer = "ok" => reply.result = "true"
    /\ (\/ reply.answer \in {"http500", "neterr"}
        \/ reply.lookup \in {"http500", "neterr"}) => reply.result = "false"

\* C20: a request issued once a re-authentication has completed carries a
\* Cookie header and a signature built from the cookies loaded last.
C20_RequestsCarryNewestCookies ==
  (reply.sent /\ reply.settled /\ reply.newest >= 2) =>
    /\ reply.header = reply.newest
    /\ reply.signature = reply.newest

====
